---- MODULE Spec2Model ----
(***************************************************************************)
(* Model of the PromptShield desktop trust gate (frontend/src-tauri/src):  *)
(* license.rs (blob verification, license file, clock-drift and            *)
(* revocation checks) and lib.rs (the Tauri commands validate_license,     *)
(* store_license, clear_license and the license-gated start_backend).      *)
(*                                                                         *)
(* Times are milliseconds.  Option<T> is a sequence: <<>> is None and      *)
(* <<x>> is Some(x).  Ed25519 is modelled symbolically: a signature is the *)
(* pair (signing key, signed bytes) and verifies under the embedded public *)
(* key iff it was made by the issuer's key over exactly those bytes.       *)
(***************************************************************************)
EXTENDS Integers, Sequences, FiniteSets, TLC

\* ------------------------------------------------------------------ state
VARIABLES
    file,      \* the license file: None, or Some(content)
    now,       \* the wall clock
    pc,        \* pc[c]: where start_backend invocation c is
    call,      \* call[c]: what invocation c has done so far
    spawned,   \* number of sidecar processes spawned so far
    slot,      \* SidecarChild: None, or Some(child handle)
    alive,     \* the sidecar processes that are running
    revoked,   \* the server answered revoked=true and no store_license followed
    last,      \* the step just taken: the operation, its inputs and result
    written,   \* the last store_license, clear_license or revocation, and how it ended
    wire,      \* a blob as text, on its way from the issuer to verify_license_blob
    staged,    \* the update staging directory: staged[name] is None or Some(content)
    upd,       \* the updater operation just run: its inputs and its outcome
    ver,       \* the version comparison made: its arguments and its answer
    app,       \* the application process: its phase and the kind of build
    net        \* the network request under way: the call, its state, its timer

\* ---------------------------------------------------------------- bounds
\* The most dot-separated components a generated version string has.
MaxComponents == 3

\* Number of start_backend invocations that can be in flight at once.
NumCalls == 1
\* Number of sidecar processes ever spawned in one run of the application.
MaxChildren == 1
\* The same, where the sidecars and the exit of the application are studied.
MaxSidecars == 2

\* ------------------------------------------------------------- constants
\* license.rs:226  const MAX_CLOCK_DRIFT_SECS: i64 = 300
MAX_CLOCK_DRIFT_SECS == 300

None == <<>>
Some(x) == <<x>>

\* machine_id::get_machine_fingerprint(): deterministic on one machine.
get_machine_fingerprint == "A"

\* Machine ids a payload can be bound to.
MachineIds == {"A", "B"}

\* Values the wall clock (Utc::now()) takes, in ms: two instants a second
\* apart and one more than a day later.
NowValues == {1000, 2000, 126001000}

\* The `expires` field of a payload: ok = it parses as RFC3339, t = instant.
BadExpires == [ok |-> FALSE, t |-> 0]
ExpiresValues == {BadExpires} \cup [ok : {TRUE}, t : {1000, 2000, 5000, 129601000}]

\* LicensePayload (the fields the checks read), license.rs:44-53.
Payloads == [machine_id : MachineIds, expires : ExpiresValues]

\* Bytes that carry no payload still have some content; this stands for it.
FillerPayload == [machine_id |-> "A", expires |-> [ok |-> TRUE, t |-> 5000]]

\* Raw payload bytes: form "ok" is JSON matching the LicensePayload schema,
\* "nofields" is JSON lacking a required field, "garbage" is not JSON.
PayloadBytes ==
    { [form |-> "ok", p |-> p] : p \in Payloads }
    \cup { [form |-> f, p |-> FillerPayload] : f \in {"nofields", "garbage"} }

\* Raw signature bytes: len64 = exactly 64 bytes long; key/msg = who signed what.
Sign(key, bytes) == [len64 |-> TRUE, key |-> key, msg |-> bytes]
ShortSig(bytes) == [len64 |-> FALSE, key |-> "issuer", msg |-> bytes]
OtherBytes(bytes) == [bytes EXCEPT !.p.machine_id = IF @ = "A" THEN "B" ELSE "A"]

SigBytesFor(bytes) ==
    { Sign("issuer", bytes), Sign("forger", bytes),
      Sign("issuer", OtherBytes(bytes)), ShortSig(bytes) }

\* A blob string.  dot: it contains a '.'; p64/s64: the text before/after the
\* first '.' is valid base64 (of pbytes / of sig); trail: a newline follows it.
Blob(dot, trail, p64, pb, s64, s) ==
    [dot |-> dot, trail |-> trail, p64 |-> p64, pbytes |-> pb, s64 |-> s64, sig |-> s]

GoodBytes == [form |-> "ok", p |-> FillerPayload]

Blobs ==
    UNION { { Blob(TRUE, FALSE, TRUE, pb, TRUE, s) : s \in SigBytesFor(pb) } :
                pb \in PayloadBytes }
    \cup { Blob(TRUE, FALSE, TRUE, GoodBytes, FALSE, Sign("issuer", GoodBytes)),
           Blob(TRUE, FALSE, FALSE, GoodBytes, TRUE, Sign("issuer", GoodBytes)),
           Blob(TRUE, FALSE, FALSE, GoodBytes, FALSE, Sign("issuer", GoodBytes)),
           Blob(FALSE, FALSE, TRUE, GoodBytes, TRUE, Sign("issuer", GoodBytes)),
           Blob(TRUE, TRUE, TRUE, GoodBytes, TRUE, Sign("issuer", GoodBytes)),
           Blob(FALSE, TRUE, TRUE, GoodBytes, TRUE, Sign("issuer", GoodBytes)) }

\* The blobs the caller of store_license passes while start_backend runs: a
\* license for this machine, one that expires at 1000, one bound to another
\* machine, and a forged one.
GateBlobs ==
    { Blob(TRUE, FALSE, TRUE, pb, TRUE, Sign(k, pb)) :
        pb \in { [form |-> "ok", p |-> FillerPayload] }, k \in {"issuer", "forger"} }
    \cup { Blob(TRUE, FALSE, TRUE, pb, TRUE, Sign("issuer", pb)) :
        pb \in { [form |-> "ok", p |-> [machine_id |-> "A", expires |-> [ok |-> TRUE, t |-> 1000]]],
                 [form |-> "ok", p |-> [machine_id |-> "B", expires |-> [ok |-> TRUE, t |-> 5000]]] } }

\* ------------------------------------------------------ the blob as text
\* Text is a sequence of ASCII codes, bytes are numbers in 0..255.
\* license.rs:109  [u8; 64]
SigLen == 64

\* base64 STANDARD (license.rs:8): the character of a 6-bit value, and the
\* value of a character (-1: not in the alphabet; '=' is 61).
B64Char(v) ==
    IF v < 26 THEN 65 + v
    ELSE IF v < 52 THEN 97 + (v - 26)
    ELSE IF v < 62 THEN 48 + (v - 52)
    ELSE IF v = 62 THEN 43 ELSE 47
B64Values ==
    [c \in 0..127 |->
        IF c >= 65 /\ c <= 90 THEN c - 65
        ELSE IF c >= 97 /\ c <= 122 THEN c - 97 + 26
        ELSE IF c >= 48 /\ c <= 57 THEN c - 48 + 52
        ELSE IF c = 43 THEN 62
        ELSE IF c = 47 THEN 63 ELSE -1]
B64Val(c) == B64Values[c]

\* base64(bytes) as the issuer renders it (license.rs:86): padded.
RECURSIVE B64Encode(_)
B64Encode(b) ==
    IF Len(b) = 0 THEN <<>>
    ELSE IF Len(b) = 1
         THEN <<B64Char(b[1] \div 4), B64Char((b[1] % 4) * 16), 61, 61>>
    ELSE IF Len(b) = 2
         THEN <<B64Char(b[1] \div 4), B64Char((b[1] % 4) * 16 + b[2] \div 16),
                B64Char((b[2] % 16) * 4), 61>>
    ELSE <<B64Char(b[1] \div 4), B64Char((b[1] % 4) * 16 + b[2] \div 16),
           B64Char((b[2] % 16) * 4 + b[3] \div 64), B64Char(b[3] % 64)>>
         \o B64Encode(SubSeq(b, 4, Len(b)))

\* B64.decode of the characters from..to of s, a multiple of 4 in number:
\* None on a character outside the alphabet, on padding anywhere but at the
\* end, and on a last symbol with non-zero discarded bits.
RECURSIVE B64DecodeQuads(_, _, _)
B64DecodeQuads(s, from, to) ==
    IF from > to THEN Some(<<>>)
    ELSE LET v1 == B64Val(s[from])
             v2 == B64Val(s[from + 1])
             v3 == B64Val(s[from + 2])
             v4 == B64Val(s[from + 3])
             b1 == v1 * 4 + v2 \div 16
             b2 == (v2 % 16) * 16 + v3 \div 4
             b3 == (v3 % 4) * 64 + v4
         IN IF v1 < 0 \/ v2 < 0 THEN None
            ELSE IF from + 3 < to
                 THEN IF v3 < 0 \/ v4 < 0 THEN None
                      ELSE LET rest == B64DecodeQuads(s, from + 4, to) IN
                           IF rest = None THEN None ELSE Some(<<b1, b2, b3>> \o rest[1])
            ELSE IF s[from + 2] = 61 /\ s[from + 3] = 61
                 THEN IF v2 % 16 = 0 THEN Some(<<b1>>) ELSE None
            ELSE IF v3 < 0 THEN None
            ELSE IF s[from + 3] = 61
                 THEN IF v3 % 4 = 0 THEN Some(<<b1, b2>>) ELSE None
            ELSE IF v4 < 0 THEN None
            ELSE Some(<<b1, b2, b3>>)

\* B64.decode, license.rs:95-96 (canonical padding is required)
\* (faulty variant: a decoder that takes unpadded text only)
B64Decode_Mut(s) ==
    IF \E i \in 1..Len(s) : s[i] = 61 THEN None
    ELSE B64DecodeQuads(s \o [i \in 1..((4 - (Len(s) % 4)) % 4) |-> 61], 1,
                        Len(s) + ((4 - (Len(s) % 4)) % 4))
B64Decode(s) == IF Len(s) % 4 # 0 THEN None ELSE B64DecodeQuads(s, 1, Len(s))

\* The JSON the server signs, cut down to the two fields of Payloads and to
\* one byte per value: '{' machine_id ',' expires '}'.
MachineByte(m) == IF m = "A" THEN 65 ELSE 66
ExpiresByte(e) ==
    IF ~e.ok THEN 48
    ELSE IF e.t = 1000 THEN 49
    ELSE IF e.t = 2000 THEN 50
    ELSE IF e.t = 5000 THEN 51 ELSE 52
to_json(p) == <<123, MachineByte(p.machine_id), 44, ExpiresByte(p.expires), 125>>

\* What serde_json::from_slice (license.rs:120) makes of raw payload bytes.
from_json(b) ==
    IF \E p \in Payloads : to_json(p) = b
    THEN [form |-> "ok", p |-> CHOOSE p \in Payloads : to_json(p) = b]
    ELSE IF b = <<123, 125>> THEN [form |-> "nofields", p |-> FillerPayload]
    ELSE [form |-> "garbage", p |-> FillerPayload]

\* The issuer's Ed25519 signature over payload bytes: 64 bytes that depend on
\* every byte signed.
IssuerSignature(b) ==
    [i \in 1..SigLen |-> (b[(i % Len(b)) + 1] * 7 + b[((i + 1) % Len(b)) + 1] + 13 * i) % 256]

\* Raw signature bytes as a signature: of the wrong length, the issuer's
\* over some payload, or 64 bytes that are no signature of the issuer's.
IssuedSignatures == [p \in Payloads |-> IssuerSignature(to_json(p))]
SignatureOf(sb) ==
    IF Len(sb) # SigLen THEN ShortSig(GoodBytes)
    ELSE IF \E p \in Payloads : IssuedSignatures[p] = sb
         THEN Sign("issuer",
                   from_json(to_json(CHOOSE p \in Payloads : IssuedSignatures[p] = sb)))
    ELSE Sign("forger", GoodBytes)

\* blob.splitn(2, '.') (license.rs:90): the place of the first '.', or 0.
RECURSIVE FirstDotFrom(_, _)
FirstDotFrom(s, i) ==
    IF i > Len(s) THEN 0 ELSE IF s[i] = 46 THEN i ELSE FirstDotFrom(s, i + 1)
FirstDot(s) == FirstDotFrom(s, 1)

\* license.rs:90-111 read off a text: the split, the two decodes and the
\* conversion of the decoded signature to [u8; 64].
Lex(s) ==
    LET d == FirstDot(s)
        pb == IF d = 0 THEN None ELSE B64Decode(SubSeq(s, 1, d - 1))
        sb == IF d = 0 THEN None ELSE B64Decode(SubSeq(s, d + 1, Len(s)))
    IN Blob(d # 0, FALSE,
            pb # None, IF pb = None THEN GoodBytes ELSE from_json(pb[1]),
            sb # None, IF sb = None THEN Sign("issuer", GoodBytes) ELSE SignatureOf(sb[1]))

\* The blob the issuer hands out for payload p (license.rs:86).
IssueBlob(p) ==
    B64Encode(to_json(p)) \o <<46>> \o B64Encode(IssuerSignature(to_json(p)))

\* c with bit k flipped.
FlipBit(c, k) == IF (c \div (2 ^ k)) % 2 = 1 THEN c - 2 ^ k ELSE c + 2 ^ k

\* ------------------------------------------------------- license.rs, pure
\* Result<T, String>
Ok(v) == [ok |-> TRUE, val |-> Some(v), err |-> None]
Err(e) == [ok |-> FALSE, val |-> None, err |-> Some(e)]

\* Error strings; date is the text interpolated into the message, if any.
\* n is the number interpolated into the message, if any.
E(msg) == [msg |-> msg, date |-> BadExpires, n |-> 0]
ExpiredError(p) == [msg |-> "License expired on", date |-> p.expires, n |-> 0]
ClockError(drift) == [msg |-> "System clock appears to be off", date |-> BadExpires, n |-> drift]
\* Ok(()) of a Result<(), String>
Pass == [ok |-> TRUE, val |-> None, err |-> None]

\* LicensePayload::is_expired, license.rs:61-65
\* (faulty variant: expiry at the very instant counts as expired, and an
\* unparseable date as never expiring)
is_expired_Mut(p, t) == IF p.expires.ok THEN p.expires.t <= t ELSE FALSE
is_expired(p, t) == IF p.expires.ok THEN p.expires.t < t ELSE TRUE

\* chrono TimeDelta::num_days / num_seconds: whole units, truncated toward 0.
TruncDiv(a, b) == IF a >= 0 THEN a \div b ELSE -((-a) \div b)
num_seconds(d) == TruncDiv(d, 1000)
num_days(d) == TruncDiv(d, 24 * 60 * 60 * 1000)
Abs(x) == IF x < 0 THEN -x ELSE x

\* LicensePayload::days_remaining, license.rs:68-72
days_remaining(p, t) == IF p.expires.ok THEN num_days(p.expires.t - t) ELSE -1

\* ed25519 verify(payload_bytes, signature) under the embedded public key,
\* license.rs:115-117: the signature was made by the issuer over these bytes.
\* (faulty variant: the signed message is not compared with the payload)
SignatureVerifies_Mut(bytes, sig) == sig.key = "issuer"
SignatureVerifies(bytes, sig) == sig.key = "issuer" /\ sig.msg = bytes

\* verify_license_blob, license.rs:89-132 (t = Utc::now() read by is_expired)
\* (faulty variant: the payload is parsed before the signature is verified)
verify_license_blob_Mut(blob, t) ==
    IF ~blob.dot THEN Err(E("Invalid license format"))
    ELSE IF ~blob.p64 THEN Err(E("Bad payload base64"))
    ELSE IF ~(blob.s64 /\ ~blob.trail) THEN Err(E("Bad signature base64"))
    ELSE IF ~blob.sig.len64 THEN Err(E("Signature must be 64 bytes"))
    ELSE IF blob.pbytes.form # "ok" THEN Err(E("Bad payload JSON"))
    ELSE IF ~SignatureVerifies(blob.pbytes, blob.sig)
        THEN Err(E("Signature verification failed"))
    ELSE IF is_expired(blob.pbytes.p, t) THEN Err(ExpiredError(blob.pbytes.p))
    ELSE Ok(blob.pbytes.p)

verify_license_blob(blob, t) ==
    IF ~blob.dot THEN Err(E("Invalid license format"))
    ELSE IF ~blob.p64 THEN Err(E("Bad payload base64"))
    ELSE IF ~(blob.s64 /\ ~blob.trail) THEN Err(E("Bad signature base64"))
    ELSE IF ~blob.sig.len64 THEN Err(E("Signature must be 64 bytes"))
    ELSE IF ~SignatureVerifies(blob.pbytes, blob.sig)
        THEN Err(E("Signature verification failed"))
    ELSE IF blob.pbytes.form # "ok" THEN Err(E("Bad payload JSON"))
    ELSE IF is_expired(blob.pbytes.p, t) THEN Err(ExpiredError(blob.pbytes.p))
    ELSE Ok(blob.pbytes.p)

\* str::trim applied by read_license_file, license.rs:145
trim(blob) == [blob EXCEPT !.trail = FALSE]

\* read_license_file, license.rs:143-146 (f = the file: None or Some(content))
read_license_file(f) == IF f = None THEN None ELSE Some(trim(f[1]))

\* LicenseStatus, license.rs:77-82
Status(valid, payload, error, days) ==
    [valid |-> valid, payload |-> payload, error |-> error, days_remaining |-> days]

\* validate_stored_license, license.rs:179-205.  The wall clock is read
\* twice: t by is_expired inside verify_license_blob (license.rs:63) and t2
\* by days_remaining (license.rs:70, called at license.rs:190).
\* (faulty variant: a verifier error is replaced by a generic message)
validate_stored_license_Mut(f, t, t2) ==
    LET r == read_license_file(f) IN
    IF r = None
    THEN Status(FALSE, None, Some(E("No license file found. Please activate.")), None)
    ELSE LET v == verify_license_blob(r[1], t) IN
         IF v.ok
         THEN Status(TRUE, v.val, None, Some(days_remaining(v.val[1], t2)))
         ELSE Status(FALSE, None, Some(E("Invalid license")), None)

validate_stored_license(f, t, t2) ==
    LET r == read_license_file(f) IN
    IF r = None
    THEN Status(FALSE, None, Some(E("No license file found. Please activate.")), None)
    ELSE LET v == verify_license_blob(r[1], t) IN
         IF v.ok
         THEN Status(TRUE, v.val, None, Some(days_remaining(v.val[1], t2)))
         ELSE Status(FALSE, None, v.err, None)

\* validate_for_machine, license.rs:208-221
\* (faulty variant: the machine binding is not checked)
validate_for_machine_Mut(f, fp, t, t2) == validate_stored_license(f, t, t2)
validate_for_machine(f, fp, t, t2) ==
    LET status == validate_stored_license(f, t, t2) IN
    IF status.payload # None /\ status.payload[1].machine_id # fp
    THEN Status(FALSE, status.payload,
                Some(E("License is bound to a different machine")),
                status.days_remaining)
    ELSE status

\* delete_license_file, license.rs:168-174 (fsOk: remove_file succeeds).
\* Yields the file afterwards and the Result.
delete_license_file(f, fsOk) ==
    IF f = None THEN [file |-> f, res |-> Pass]
    ELSE IF fsOk THEN [file |-> None, res |-> Pass]
    ELSE [file |-> f, res |-> Err(E("Cannot delete license file"))]

\* write_license_file, license.rs:149-165.  fs is what the file system does:
\* "ok"; "fail" (the directory or the file cannot be created, nothing
\* changes); "partial" (fs::write truncated the file and then failed).
TruncatedBlob == Blob(FALSE, FALSE, TRUE, GoodBytes, TRUE, Sign("issuer", GoodBytes))
\* (faulty variant: a license file that exists is not overwritten)
write_license_file_Mut(f, blob, fs) ==
    IF fs = "ok" THEN [file |-> IF f = None THEN Some(blob) ELSE f, res |-> Pass]
    ELSE IF fs = "partial"
         THEN [file |-> Some(TruncatedBlob), res |-> Err(E("Cannot write license file"))]
    ELSE [file |-> f, res |-> Err(E("Cannot write license file"))]
write_license_file(f, blob, fs) ==
    IF fs = "ok" THEN [file |-> Some(blob), res |-> Pass]
    ELSE IF fs = "partial"
         THEN [file |-> Some(TruncatedBlob), res |-> Err(E("Cannot write license file"))]
    ELSE [file |-> f, res |-> Err(E("Cannot write license file"))]

\* Offsets (ms) of the time server's answer from the local clock.
DriftOffsets == {-301000, -300999, -300000, 0, 300000, 300001, 301000}

\* What comes back for the GET of check_clock_drift: send() fails
\* ("transport", "timeout"), a non-2xx status ("status"), a body that is not
\* a TimeResp ("badjson"), a TimeResp whose utc_datetime neither format
\* parses ("badtime"), or a TimeResp with a server time ("time").
NoResp == [kind |-> "none", t |-> 0]
ClockResponses(local) ==
    { [kind |-> k, t |-> 0] : k \in {"transport", "timeout", "status", "badjson", "badtime"} }
    \cup { [kind |-> "time", t |-> local + d] : d \in DriftOffsets }

\* check_clock_drift after the client is built, license.rs:241-278
\* (local = Utc::now() read at line 268).
clock_drift_result(resp, local) ==
    IF resp.kind \in {"transport", "timeout", "status", "badjson"} THEN Pass
    ELSE IF resp.kind = "badtime" THEN Err(E("Cannot parse server time"))
    ELSE LET drift == Abs(num_seconds(resp.t - local)) IN
         IF drift > MAX_CLOCK_DRIFT_SECS THEN Err(ClockError(drift)) ELSE Pass

\* What comes back for the GET of check_revocation.
RevocationResponses ==
    { [kind |-> k, t |-> 0] :
        k \in {"transport", "timeout", "status", "badjson", "revoked_false", "revoked_true"} }

\* check_revocation after the client is built, license.rs:302-325:
\* whether delete_license_file is called, and the Result.
\* (faulty variants: a revocation is honoured only while the local clock
\* is early; a transport error is treated as a revocation)
revocation_result_ClockMut(resp) ==
    IF resp.kind = "revoked_true" /\ now <= 2000
    THEN [delete |-> TRUE, res |-> Err(E("Your license has been revoked"))]
    ELSE [delete |-> FALSE, res |-> Pass]
revocation_result_Mut(resp) ==
    IF resp.kind \in {"revoked_true", "transport"}
    THEN [delete |-> TRUE, res |-> Err(E("Your license has been revoked"))]
    ELSE [delete |-> FALSE, res |-> Pass]
revocation_result(resp) ==
    IF resp.kind = "revoked_true"
    THEN [delete |-> TRUE, res |-> Err(E("Your license has been revoked"))]
    ELSE [delete |-> FALSE, res |-> Pass]

\* ------------------------------------------------------------ updater.rs
\* What a package, an installer or a staged file can hold; "partial" is a
\* file whose writing stopped half way.
Contents == {"good", "evil"}

\* hex::encode(Sha256 of the content), updater.rs:134-136 and 269-271: the
\* digest of distinct contents is distinct, and the hex is lower case.
Sha256Hex(c) == [of |-> c, upper |-> FALSE]

\* The sha256 string of a manifest: the digest of some content, in lower or
\* upper case hex.
ManifestDigests ==
    { [of |-> "good", upper |-> FALSE], [of |-> "good", upper |-> TRUE],
      [of |-> "evil", upper |-> FALSE] }

\* str::to_lowercase, updater.rs:273 and 484
to_lowercase(d) == [d EXCEPT !.upper = FALSE]

\* ---- version strings: a sequence of one-character strings
Digits == {"0", "1", "2", "3", "4", "5", "6", "7", "8", "9"}
DigitValue ==
    [c \in Digits |-> CASE c = "0" -> 0 [] c = "1" -> 1 [] c = "2" -> 2 [] c = "3" -> 3
                         [] c = "4" -> 4 [] c = "5" -> 5 [] c = "6" -> 6 [] c = "7" -> 7
                         [] c = "8" -> 8 [] c = "9" -> 9]

\* The value of a string of digits, most significant first.
RECURSIVE DecimalValue(_, _)
DecimalValue(s, n) == IF n = 0 THEN 0 ELSE 10 * DecimalValue(s, n - 1) + DigitValue[s[n]]

\* str::parse::<u64>().ok(), updater.rs:113: digits with an optional leading
\* '+'; anything else, the empty string too, is None.  (No component here
\* has the 20 digits it takes to overflow a u64.)
parse_u64(s) ==
    LET body == IF Len(s) > 0 /\ s[1] = "+" THEN Tail(s) ELSE s IN
    IF Len(body) = 0 \/ \E i \in DOMAIN body : body[i] \notin Digits
    THEN None
    ELSE Some(DecimalValue(body, Len(body)))

\* str::trim_start_matches('v'), updater.rs:111: every leading 'v' goes.
RECURSIVE trim_start_matches_v(_)
trim_start_matches_v(s) ==
    IF Len(s) > 0 /\ s[1] = "v" THEN trim_start_matches_v(Tail(s)) ELSE s

\* str::split('.'), updater.rs:112: the pieces of s between dots, from
\* position i on, cur being the piece under way.
RECURSIVE split_dot(_, _, _)
split_dot(s, i, cur) ==
    IF i > Len(s) THEN <<cur>>
    ELSE IF s[i] = "." THEN <<cur>> \o split_dot(s, i + 1, <<>>)
    ELSE split_dot(s, i + 1, Append(cur, s[i]))

\* filter_map(|s| s.parse::<u64>().ok()).collect(), updater.rs:113-114
\* (faulty variant: a piece that does not parse counts as 0 and keeps its
\* place)
RECURSIVE filter_map_parse_Mut(_)
filter_map_parse_Mut(pieces) ==
    IF pieces = <<>> THEN <<>>
    ELSE (IF parse_u64(Head(pieces)) = None THEN <<0>> ELSE parse_u64(Head(pieces)))
         \o filter_map_parse_Mut(Tail(pieces))
RECURSIVE filter_map_parse(_)
filter_map_parse(pieces) ==
    IF pieces = <<>> THEN <<>>
    ELSE parse_u64(Head(pieces)) \o filter_map_parse(Tail(pieces))

\* the closure parse, updater.rs:110-115
parse_version(v) == filter_map_parse(split_dot(trim_start_matches_v(v), 1, <<>>))

Max(a, b) == IF a >= b THEN a ELSE b

\* l.get(i).copied().unwrap_or(0), updater.rs:119-120 (i from 1 here)
GetOr0(l, i) == IF i \in DOMAIN l THEN l[i] ELSE 0

\* the loop of is_newer_version from index i on, updater.rs:118-128
\* (faulty variant: a component one side lacks ends the comparison, the
\* longer side being the greater)
RECURSIVE newer_from_Mut(_, _, _)
newer_from_Mut(l, r, i) ==
    IF i > Max(Len(l), Len(r)) THEN FALSE
    ELSE IF i > Len(l) THEN TRUE
    ELSE IF i > Len(r) THEN FALSE
    ELSE IF r[i] > l[i] THEN TRUE
    ELSE IF r[i] < l[i] THEN FALSE
    ELSE newer_from_Mut(l, r, i + 1)
RECURSIVE newer_from(_, _, _)
newer_from(l, r, i) ==
    IF i > Max(Len(l), Len(r)) THEN FALSE
    ELSE IF GetOr0(r, i) > GetOr0(l, i) THEN TRUE
    ELSE IF GetOr0(r, i) < GetOr0(l, i) THEN FALSE
    ELSE newer_from(l, r, i + 1)

\* is_newer_version, updater.rs:109-129
is_newer_version_Mut(local, remote) ==
    newer_from_Mut(parse_version(local), parse_version(remote), 1)
is_newer_version(local, remote) ==
    newer_from(parse_version(local), parse_version(remote), 1)

\* Version strings to compare: the numbers of the components, and whether
\* the text has a leading 'v'.
ComponentNumbers == {0, 2, 10}
Numeral == [n \in ComponentNumbers |->
              CASE n = 0 -> <<"0">> [] n = 2 -> <<"2">> [] n = 10 -> <<"1", "0">>]
NumberLists == UNION { [1..k -> ComponentNumbers] : k \in 1..MaxComponents }
RECURSIVE JoinDots(_, _)
JoinDots(nums, i) ==
    IF i = Len(nums) THEN Numeral[nums[i]]
    ELSE Numeral[nums[i]] \o <<".">> \o JoinDots(nums, i + 1)
VersionOf(v, nums) ==
    [text |-> (IF v THEN <<"v">> ELSE <<>>) \o JoinDots(nums, 1), nums |-> nums]
Versions ==
    { VersionOf(FALSE, nums) : nums \in NumberLists }
    \cup { VersionOf(TRUE, nums) : nums \in [1..2 -> ComponentNumbers] }

\* Version strings some of whose components are not numbers: each piece is
\* its text and, when the text writes an unsigned integer, that integer.
Piece(text, val) == [text |-> text, val |-> val]
Pieces ==
    { Piece(<<"0">>, Some(0)), Piece(<<"1">>, Some(1)), Piece(<<"2">>, Some(2)),
      Piece(<<"5">>, Some(5)), Piece(<<"x">>, None), Piece(<<>>, None) }
RECURSIVE JoinPieces(_, _)
JoinPieces(parts, i) ==
    IF i = Len(parts) THEN parts[i].text
    ELSE parts[i].text \o <<".">> \o JoinPieces(parts, i + 1)
LooseVersion(parts) == [text |-> JoinPieces(parts, 1), parts |-> parts]
LooseVersions ==
    { LooseVersion(parts) : parts \in UNION { [1..k -> Pieces] : k \in 1..MaxComponents } }
\* The versions of the running build the loose ones are compared with:
\* "1.2.0", "0", "x" and "1.x.5".
LooseLocals ==
    { LooseVersion(<<Piece(<<"1">>, Some(1)), Piece(<<"2">>, Some(2)), Piece(<<"0">>, Some(0))>>),
      LooseVersion(<<Piece(<<"0">>, Some(0))>>),
      LooseVersion(<<Piece(<<"x">>, None)>>),
      LooseVersion(<<Piece(<<"1">>, Some(1)), Piece(<<"x">>, None), Piece(<<"5">>, Some(5))>>) }

\* A comparison made by is_newer_version: the two versions and the answer.
Comparison(op, local, remote, newer) ==
    [op |-> op, local |-> local, remote |-> remote, newer |-> newer]
NoComparison ==
    Comparison("none", VersionOf(FALSE, <<0>>), VersionOf(FALSE, <<0>>), FALSE)

\* CURRENT_VERSION, updater.rs:21: the package version of the build.
CURRENT_VERSION == <<"0", ".", "2", ".", "0">>

\* InstallResult, updater.rs:70-75; message is the text and, if the text
\* quotes an underlying error, that error.
InstallResult(success, message, needs_restart) ==
    [success |-> success, message |-> message, needs_restart |-> needs_restart]
Failure(message) == InstallResult(FALSE, message, FALSE)

\* File names the staging directory can hold.
StagedNames == {"setup.exe", "extra.dll"}

\* Entry names that, joined to the staging directory (PathBuf::join,
\* updater.rs:449), name a file elsewhere: a parent-directory component
\* leads out of it, an absolute name replaces it.
OutsideNames == {"../setup.exe", "/tmp/setup.exe"}

\* The paths File::create can create a file at: the directory of any other
\* name used here ("sub/x", "", "..") does not exist or is no file.
FsNames == StagedNames \cup OutsideNames

\* A download URL as the strings between its '/'.
Urls == { <<"https:", "", "host", "setup.exe">>, <<"https:", "", "host", "latest", "">> }

\* Versions a server or a package declares: the current one, an older one, a
\* newer one (newer by number, not by alphabet), the current one written
\* another way.
VersionText(v, nums) == VersionOf(v, nums).text
OlderVersion == VersionText(FALSE, <<0, 0, 10>>)
NewerVersion == VersionText(FALSE, <<0, 10, 0>>)
SameVersionShort == VersionText(TRUE, <<0, 2>>)
DeclaredVersions == {CURRENT_VERSION, OlderVersion, NewerVersion, SameVersionShort}

\* UpdateManifest (the fields the updater reads), updater.rs:27-42; the
\* ones given to download_and_install, and the ones the server answers a
\* check with.
UpdateManifest(version, url, sha256) == [version |-> version, url |-> url, sha256 |-> sha256]
Manifests == { UpdateManifest(NewerVersion, u, d) : u \in Urls, d \in ManifestDigests }
ServerManifests ==
    { UpdateManifest(v, <<"https:", "", "host", "setup.exe">>, [of |-> "good", upper |-> FALSE]) :
        v \in DeclaredVersions }

\* What the update server answers to a check: no connection or a timeout
\* of the transport ("transport"), or a status with a body; the body is
\* empty, or no JSON of an UpdateManifest ("garbage"), or a manifest.  A 204
\* answer has no body.
NoManifest == UpdateManifest(<<>>, <<>>, [of |-> "good", upper |-> FALSE])
Body(kind, m) == [kind |-> kind, manifest |-> m]
CheckResponse(kind, status, body) == [kind |-> kind, status |-> status, body |-> body]
CheckResponses ==
    { CheckResponse("transport", 0, Body("empty", NoManifest)),
      CheckResponse("http", 204, Body("empty", NoManifest)),
      CheckResponse("http", 200, Body("empty", NoManifest)),
      CheckResponse("http", 200, Body("garbage", NoManifest)),
      CheckResponse("http", 404, Body("garbage", NoManifest)),
      CheckResponse("http", 500, Body("empty", NoManifest)) }
    \cup { CheckResponse("http", 200, Body("manifest", m)) : m \in ServerManifests }
    \cup { CheckResponse("http", 500, Body("manifest", m)) : m \in ServerManifests }

\* StatusCode::is_success, updater.rs:152
is_success(status) == status >= 200 /\ status < 300

\* UpdateCheckResult, updater.rs:47-58
UpdateCheckResult(update_available, latest_version, manifest, error) ==
    [update_available |-> update_available, current_version |-> CURRENT_VERSION,
     latest_version |-> latest_version, manifest |-> manifest, error |-> error]

\* check_for_updates, updater.rs:142-199
\* (faulty variant: the manifest is returned whether or not it is newer)
check_for_updates_Mut(resp) ==
    IF resp.kind = "transport"
    THEN UpdateCheckResult(FALSE, None, None, Some("Network error"))
    ELSE IF is_success(resp.status)
    THEN IF resp.body.kind = "manifest"
         THEN LET manifest == resp.body.manifest
                  available == is_newer_version(CURRENT_VERSION, manifest.version)
              IN UpdateCheckResult(available, Some(manifest.version), Some(manifest), None)
         ELSE UpdateCheckResult(FALSE, None, None, Some("Failed to parse update manifest"))
    ELSE IF resp.status = 204
    THEN UpdateCheckResult(FALSE, Some(CURRENT_VERSION), None, None)
    ELSE UpdateCheckResult(FALSE, None, None, Some("Server returned status"))
check_for_updates(resp) ==
    IF resp.kind = "transport"
    THEN UpdateCheckResult(FALSE, None, None, Some("Network error"))
    ELSE IF is_success(resp.status)
    THEN IF resp.body.kind = "manifest"
         THEN LET manifest == resp.body.manifest
                  available == is_newer_version(CURRENT_VERSION, manifest.version)
              IN UpdateCheckResult(available, Some(manifest.version),
                                   IF available THEN Some(manifest) ELSE None, None)
         ELSE UpdateCheckResult(FALSE, None, None, Some("Failed to parse update manifest"))
    ELSE IF resp.status = 204
    THEN UpdateCheckResult(FALSE, Some(CURRENT_VERSION), None, None)
    ELSE UpdateCheckResult(FALSE, None, None, Some("Server returned status"))

\* manifest.url.rsplit('/').next(), updater.rs:211-215
FileNameOf(url) == url[Len(url)]

\* What the download server answers: no connection ("transport"), a
\* non-2xx status ("status"), a body that breaks off ("body_err"), or a body.
DownloadResponses ==
    { [kind |-> k, bytes |-> "good"] : k \in {"transport", "status", "body_err"} }
    \cup { [kind |-> "ok", bytes |-> c] : c \in Contents }

\* What the file system and the process launcher do during one operation:
\* all goes well ("ok"), or File::create fails, or the write (write_all,
\* io::copy) fails, or reading the file back for its hash fails, or spawning
\* the installer fails; at is the archive entry it happens to (0: none).
\* A download that brings no body touches no file.
FsOutcome(kind, at) == [kind |-> kind, at |-> at]
DownloadFs(resp) ==
    IF resp.kind # "ok" THEN { FsOutcome("ok", 0) }
    ELSE { FsOutcome(k, 0) : k \in {"ok", "create_err", "write_err", "spawn_err"} }

\* download_file, updater.rs:235-287: the staging directory afterwards and
\* the Result.
\* (faulty variant: the bytes are written to dest before the digest is compared)
download_file_Mut(st, dest, expected_sha256, resp, fs) ==
    IF resp.kind = "transport" THEN [staged |-> st, res |-> Err(E("Download request failed"))]
    ELSE IF resp.kind = "status"
         THEN [staged |-> st, res |-> Err(E("Download failed with status"))]
    ELSE IF resp.kind = "body_err"
         THEN [staged |-> st, res |-> Err(E("Failed to read download body"))]
    ELSE IF dest \notin StagedNames \/ fs.kind = "create_err"
         THEN [staged |-> st, res |-> Err(E("Failed to create file"))]
    ELSE IF fs.kind = "write_err"
         THEN [staged |-> [st EXCEPT ![dest] = Some("partial")],
               res |-> Err(E("Failed to write file"))]
    ELSE IF Sha256Hex(resp.bytes) # to_lowercase(expected_sha256)
         THEN [staged |-> [st EXCEPT ![dest] = Some(resp.bytes)],
               res |-> Err(E("SHA-256 mismatch"))]
    ELSE [staged |-> [st EXCEPT ![dest] = Some(resp.bytes)], res |-> Pass]
download_file(st, dest, expected_sha256, resp, fs) ==
    IF resp.kind = "transport" THEN [staged |-> st, res |-> Err(E("Download request failed"))]
    ELSE IF resp.kind = "status"
         THEN [staged |-> st, res |-> Err(E("Download failed with status"))]
    ELSE IF resp.kind = "body_err"
         THEN [staged |-> st, res |-> Err(E("Failed to read download body"))]
    ELSE IF Sha256Hex(resp.bytes) # to_lowercase(expected_sha256)
         THEN [staged |-> st, res |-> Err(E("SHA-256 mismatch"))]
    ELSE IF dest \notin StagedNames \/ fs.kind = "create_err"
         THEN [staged |-> st, res |-> Err(E("Failed to create file"))]
    ELSE IF fs.kind = "write_err"
         THEN [staged |-> [st EXCEPT ![dest] = Some("partial")],
               res |-> Err(E("Failed to write file"))]
    ELSE [staged |-> [st EXCEPT ![dest] = Some(resp.bytes)], res |-> Pass]

\* launch_installer, updater.rs:290-331: the InstallResult, and the launch
\* attempted: the path given to the process launcher and what the file
\* there holds.
Launch(path, content) == [path |-> path, content |-> content]
\* (faulty variant: a failed spawn is reported as a launch)
launch_installer_Mut(st, path, fs) ==
    [result |-> InstallResult(TRUE, <<"Update installer launched. The app will restart.">>, TRUE),
     launch |-> Some(Launch(path, st[path]))]
launch_installer(st, path, fs) ==
    [result |-> IF fs.kind = "spawn_err"
                THEN Failure(<<"Failed to launch installer">>)
                ELSE InstallResult(TRUE, <<"Update installer launched. The app will restart.">>, TRUE),
     launch |-> Some(Launch(path, st[path]))]

\* download_and_install, updater.rs:204-232
download_and_install(st, manifest, resp, fs) ==
    LET dest == FileNameOf(manifest.url)
        d == download_file(st, dest, manifest.sha256, resp, fs)
    IN IF ~d.res.ok
       THEN [staged |-> d.staged,
             result |-> Failure(<<"Download failed", d.res.err[1].msg>>),
             launch |-> None]
       ELSE [staged |-> d.staged] @@ launch_installer(d.staged, dest, fs)

\* An entry of an offline package: its name, whether it is a directory,
\* whether archive.by_index can read it, and what it holds.
Entry(name, dir, readable, content) ==
    [name |-> name, dir |-> dir, readable |-> readable, content |-> content]
ManifestEntry == Entry("manifest.json", FALSE, TRUE, "good")
Installer(c) == Entry("setup.exe", FALSE, TRUE, c)
Unreadable == Entry("extra.dll", FALSE, FALSE, "good")
Directory == Entry("sub/", TRUE, TRUE, "good")
Escaping(name) == Entry(name, FALSE, TRUE, "good")

\* The entries of a package other than manifest.json.
EntryLists ==
    { <<>>, <<Directory>>, <<Unreadable>>,
      <<Installer("good")>>, <<Installer("evil")>>,
      <<Unreadable, Installer("good")>>, <<Directory, Installer("good")>>,
      <<Installer("evil"), Installer("good")>>,
      <<Installer("good"), Entry("extra.dll", FALSE, TRUE, "evil")>>,
      <<Escaping("../setup.exe")>>, <<Escaping("/tmp/setup.exe")>> }

\* An offline package: whether the file opens, whether it is a zip archive,
\* its manifest.json ("absent", "unreadable", "badjson" or "ok"), the version
\* and the sha256 of the OfflinePackageMeta in it (updater.rs:79-85), and its
\* entries.
Archive(opens, zip, manifest, sha256, entries) ==
    [opens |-> opens, zip |-> zip, manifest |-> manifest, version |-> NewerVersion,
     sha256 |-> sha256,
     entries |-> entries]
GoodDigest == [of |-> "good", upper |-> FALSE]
Archives ==
    { Archive(FALSE, TRUE, "ok", GoodDigest, <<Installer("good"), ManifestEntry>>),
      Archive(TRUE, FALSE, "ok", GoodDigest, <<Installer("good"), ManifestEntry>>),
      Archive(TRUE, TRUE, "absent", GoodDigest, <<Installer("good")>>) }
    \cup { Archive(TRUE, TRUE, m, GoodDigest, <<Installer("good"), ManifestEntry>>) :
               m \in {"unreadable", "badjson"} }
    \cup { Archive(TRUE, TRUE, "ok", d, l \o <<ManifestEntry>>) :
               d \in ManifestDigests, l \in EntryLists }
    \cup { [Archive(TRUE, TRUE, "ok", GoodDigest, <<Installer("good"), ManifestEntry>>)
               EXCEPT !.version = v] : v \in DeclaredVersions }

OfflineFs ==
    { FsOutcome(k, 0) : k \in {"ok", "hash_err", "spawn_err"} }
    \cup { FsOutcome(k, i) : k \in {"create_err", "write_err"}, i \in {1, 2} }

\* The extraction loop, updater.rs:439-468, from entry i on: the files
\* afterwards (st maps FsNames), installer_path, and the InstallResult if it
\* returned.
RECURSIVE extract(_, _, _, _, _)
extract(st, entries, i, fs, installer_path) ==
    IF i > Len(entries)
    THEN [staged |-> st, installer_path |-> installer_path, returned |-> None]
    ELSE LET entry == entries[i]
             name == entry.name
         IN IF ~entry.readable THEN extract(st, entries, i + 1, fs, installer_path)
            ELSE IF name = "manifest.json" \/ entry.dir
                 THEN extract(st, entries, i + 1, fs, installer_path)
            ELSE IF name \notin FsNames \/ (fs.kind = "create_err" /\ fs.at = i)
                 THEN [staged |-> st, installer_path |-> installer_path,
                       returned |-> Some(Failure(<<"Failed to extract", name>>))]
            ELSE IF fs.kind = "write_err" /\ fs.at = i
                 THEN [staged |-> [st EXCEPT ![name] = Some("partial")],
                       installer_path |-> installer_path,
                       returned |-> Some(Failure(<<"Failed to write", name>>))]
            ELSE extract([st EXCEPT ![name] = Some(entry.content)], entries, i + 1, fs,
                         Some(name))

\* install_offline_package, updater.rs:379-506
install_offline_package(st, a, fs) ==
    IF ~a.opens
    THEN [staged |-> st, result |-> Failure(<<"Failed to open package">>), launch |-> None]
    ELSE IF ~a.zip
    THEN [staged |-> st, result |-> Failure(<<"Invalid update package">>), launch |-> None]
    ELSE IF a.manifest = "absent"
    THEN [staged |-> st, result |-> Failure(<<"Package missing manifest.json">>), launch |-> None]
    ELSE IF a.manifest = "unreadable"
    THEN [staged |-> st, result |-> Failure(<<"Failed to read manifest">>), launch |-> None]
    ELSE IF a.manifest = "badjson"
    THEN [staged |-> st, result |-> Failure(<<"Invalid manifest">>), launch |-> None]
    ELSE LET x == extract(st, a.entries, 1, fs, None) IN
         IF x.returned # None
         THEN [staged |-> x.staged, result |-> x.returned[1], launch |-> None]
         ELSE IF x.installer_path = None
         THEN [staged |-> x.staged,
               result |-> Failure(<<"No installer found in update package">>),
               launch |-> None]
         ELSE IF fs.kind = "hash_err"
         THEN [staged |-> x.staged, result |-> Failure(<<"Hash verification failed">>),
               launch |-> None]
         ELSE IF Sha256Hex(x.staged[x.installer_path[1]][1]) # to_lowercase(a.sha256)
         THEN [staged |-> x.staged, result |-> Failure(<<"Integrity check failed">>),
               launch |-> None]
         ELSE [staged |-> x.staged] @@ launch_installer(x.staged, x.installer_path[1], fs)

\* OfflinePackageMeta (the fields the updater reads), updater.rs:79-85
OfflinePackageMeta(a) == [version |-> a.version, sha256 |-> a.sha256]

\* read_offline_package, updater.rs:340-374
read_offline_package(a) ==
    IF ~a.opens THEN Err(E("Failed to open package"))
    ELSE IF ~a.zip THEN Err(E("Invalid update package (not a valid zip)"))
    ELSE IF a.manifest = "absent" THEN Err(E("Update package missing manifest.json"))
    ELSE IF a.manifest = "unreadable" THEN Err(E("Failed to read manifest"))
    ELSE IF a.manifest = "badjson" THEN Err(E("Invalid manifest.json"))
    ELSE IF ~is_newer_version(CURRENT_VERSION, a.version)
    THEN Err(E("Package version is not newer than current version"))
    ELSE Ok(OfflinePackageMeta(a))

\* An updater operation with its inputs and its outcome; outside: the files
\* it wrote that are not in the staging directory.
Update(op, manifest, resp, archive, fs, out, outside) ==
    [op |-> op, manifest |-> manifest, resp |-> resp, archive |-> archive, fs |-> fs,
     result |-> out.result, launch |-> out.launch, outside |-> outside]
NoUpdate ==
    [op |-> "none", manifest |-> None, resp |-> None, archive |-> None,
     fs |-> FsOutcome("ok", 0), result |-> Failure(<<>>), launch |-> None, outside |-> {}]

\* lib.rs:77  if !status.valid { return Err(..) }
\* (faulty variant: the gate lets every status through)
LicenseGate_Mut(status) == TRUE
LicenseGate(status) == status.valid

\* ---------------------------------------------------------- integrity.rs
\* The application process: phase is "starting" (the setup hook has not
\* run), "running" or "exited"; build is "release" or "debug"
\* (cfg!(debug_assertions)).
App(phase, build) == [phase |-> phase, build |-> build]

\* What setup finds: is_debugger_present() (integrity.rs:13-40) and
\* timing_check() (integrity.rs:46-58).
Findings(debugger, slow) == [debugger |-> debugger, slow |-> slow]
FindingsSet == { Findings(d, s) : d \in BOOLEAN, s \in BOOLEAN }

\* run_integrity_checks, integrity.rs:85-105: the Result and the warnings
\* printed.
\* (faulty variant: a timing anomaly is only logged, in every build)
run_integrity_checks_Mut(build, f) ==
    IF f.debugger /\ build # "debug"
    THEN [res |-> Err(E("Debugger detected")), log |-> <<>>]
    ELSE [res |-> Pass,
          log |-> (IF f.debugger THEN <<"Debugger detected">> ELSE <<>>)
                  \o (IF f.slow THEN <<"Timing anomaly detected">> ELSE <<>>)]
run_integrity_checks(build, f) ==
    IF f.debugger /\ build # "debug"
    THEN [res |-> Err(E("Debugger detected")), log |-> <<>>]
    ELSE IF f.slow /\ build # "debug"
    THEN [res |-> Err(E("Timing anomaly detected")),
          log |-> IF f.debugger THEN <<"Debugger detected">> ELSE <<>>]
    ELSE [res |-> Pass,
          log |-> (IF f.debugger THEN <<"Debugger detected">> ELSE <<>>)
                  \o (IF f.slow THEN <<"Timing anomaly detected">> ELSE <<>>)]

\* verify_binary_integrity, integrity.rs:65-79: binary is what the file at
\* the path holds, or "unreadable"; the hex of the digest is compared with
\* the expected string as it is.
verify_binary_integrity(binary, expected_hash) ==
    IF binary = "unreadable" THEN FALSE ELSE Sha256Hex(binary) = expected_hash

\* What start_backend finds when it comes to launch the sidecar
\* (lib.rs:93-123): a backend already listens on the port; the sidecar
\* command can be created; SIDECAR_EXPECTED_HASH, if set; resource_dir()
\* resolves; what the sidecar binary holds; spawn succeeds.
LaunchEnv(running, cmd_ok, expected, resource_dir, binary, spawn_ok) ==
    [running |-> running, cmd_ok |-> cmd_ok, expected |-> expected,
     resource_dir |-> resource_dir, binary |-> binary, spawn_ok |-> spawn_ok]
LaunchEnvs ==
    { LaunchEnv(TRUE, TRUE, None, TRUE, "good", TRUE),
      LaunchEnv(FALSE, FALSE, None, TRUE, "good", TRUE),
      LaunchEnv(FALSE, TRUE, None, TRUE, "good", FALSE),
      LaunchEnv(FALSE, TRUE, None, TRUE, "good", TRUE),
      LaunchEnv(FALSE, TRUE, None, TRUE, "evil", TRUE),
      LaunchEnv(FALSE, TRUE, Some([of |-> "good", upper |-> TRUE]), TRUE, "good", TRUE) }
    \cup { LaunchEnv(FALSE, TRUE, Some([of |-> "good", upper |-> FALSE]), d, b, TRUE) :
               d \in BOOLEAN, b \in {"good", "evil", "unreadable"} }

\* lib.rs:98-123: what becomes of the launch: "running": the port is
\* returned; "cmd_err": the sidecar command cannot be created; "hash_err":
\* the integrity check refuses; "spawn_err": spawn fails; "spawn": the
\* sidecar process is started.  With resource_dir() failing the path is
\* empty (unwrap_or_default) and the check is skipped.
launch_outcome(e) ==
    IF e.running THEN "running"
    ELSE IF ~e.cmd_ok THEN "cmd_err"
    ELSE IF /\ e.expected # None
            /\ e.resource_dir
            /\ ~verify_binary_integrity(e.binary, e.expected[1])
         THEN "hash_err"
    ELSE IF ~e.spawn_ok THEN "spawn_err"
    ELSE "spawn"

\* ------------------------------------------- the network-bound requests
\* Duration::from_secs(5) of the clients of check_clock_drift and
\* check_revocation, license.rs:236 and 293.
CLIENT_TIMEOUT_SECS == 5

\* The calls that send a request and await the answer.
NetOps == {"check_clock_drift", "check_revocation", "check_for_updates", "download_file"}

\* The timeout of the client a call uses: check_clock_drift and
\* check_revocation build theirs with .timeout(5 s) (license.rs:235-238,
\* 292-295); check_for_updates and download_file call reqwest::get
\* (updater.rs:150, 242), whose client has none.
client_timeout(op) ==
    IF op \in {"check_clock_drift", "check_revocation"} THEN Some(CLIENT_TIMEOUT_SECS)
    ELSE None

\* A request: the call; state is "idle", "connecting" (sent, no status line
\* yet), "body" (a success status came, the body is awaited) or "returned";
\* left is the seconds left on the client's timer, if it has one; outcome is
\* how the await ended.
Request(op, state, left, outcome) ==
    [op |-> op, state |-> state, left |-> left, outcome |-> outcome]
NoRequest == Request("none", "idle", None, "none")

\* No finding recorded.
NoEnv == Findings(FALSE, FALSE)

vars == <<file, now, pc, call, spawned, slot, alive, revoked, last, written, wire, staged, upd,
          ver, app, net>>

\* What the license commands and start_backend leave alone.
otherVars == <<wire, staged, upd, ver, app, net>>

Calls == 1..NumCalls

\* lic: "none", or validate_for_machine said "valid" / "invalid";
\* clock, revoc: "none", request "sent", or the check returned "ok" / "err";
\* child: the sidecar this invocation spawned (0: none).
FreshCall == [lic |-> "none", clock |-> "none", revoc |-> "none", child |-> 0]

\* op: the operation; c: the start_backend invocation (0: none); file: the
\* license file before the step (None for store_license, which does not
\* read it before writing); status: the LicenseStatus computed, if any;
\* res: the Result of the operation, if any; resp: the network response
\* received; ret: what start_backend returned, if the step ended it, and
\* hist: what that invocation had done; t: the wall clock when the step
\* began; fs: what the file system did to a delete ("ok", "fail"), if asked;
\* env: what the step found in its environment (setup, launch).
Event(op, c, f, status, res, resp) ==
    [op |-> op, c |-> c, file |-> f, status |-> status, res |-> res, resp |-> resp,
     hist |-> FreshCall, ret |-> None, t |-> 0, fs |-> "none", env |-> NoEnv]

NoEvent == Event("none", 0, None, None, None, NoResp)

\* The last operation that writes or deletes the license file: op is "none",
\* "store" (store_license wrote blob), "clear" (clear_license returned Ok),
\* "revoked" (check_revocation got revoked=true) or "failed" (store_license
\* or clear_license returned an error).
Written(op, blob) == [op |-> op, blob |-> blob]

\* A blob in transit: its text, the payload the issuer signed, and what was
\* done to it on the way: tamper is "none", "text" (one bit of one character
\* of a segment flipped) or "bytes" (one bit of one decoded byte of a segment
\* flipped, the segment encoded again); seg is the segment, "payload" or
\* "signature".
Wire(text, p, tamper, seg) == [text |-> text, p |-> p, tamper |-> tamper, seg |-> seg]
NoWire == Wire(<<>>, FillerPayload, "none", "none")

Init ==
    /\ file = None
    /\ now \in NowValues
    /\ pc = [c \in Calls |-> "idle"]
    /\ call = [c \in Calls |-> FreshCall]
    /\ spawned = 0
    /\ slot = None
    /\ alive = {}
    /\ revoked = FALSE
    /\ last = NoEvent
    /\ written = Written("none", None)
    /\ wire = NoWire
    /\ staged = [n \in StagedNames |-> None]
    /\ upd = NoUpdate
    /\ ver = NoComparison
    /\ app = App("running", "release")
    /\ net = NoRequest

\* The setup hook, lib.rs:186-204: the integrity checks, then in a release
\* build with a finding exit(1), else validate_stored_license (its status is
\* emitted as "license-status").
Setup ==
    /\ app.phase = "starting"
    /\ \E f \in FindingsSet, t2 \in NowValues :
         LET r == run_integrity_checks(app.build, f) IN
         IF ~r.res.ok /\ app.build # "debug"
         THEN /\ app' = [app EXCEPT !.phase = "exited"]
              /\ now' = now
              /\ last' = [Event("setup", 0, file, None, Some(r.res), NoResp)
                             EXCEPT !.t = now, !.env = f]
         ELSE /\ app' = [app EXCEPT !.phase = "running"]
              /\ now' = t2
              /\ last' = [Event("setup", 0, file, Some(validate_stored_license(file, now, t2)),
                                Some(r.res), NoResp)
                             EXCEPT !.t = now, !.env = f]
    /\ UNCHANGED <<file, pc, call, spawned, slot, alive, revoked, written>>
    /\ UNCHANGED <<wire, staged, upd, ver, net>>

\* The user or the system sets the wall clock.
ClockSet ==
    /\ \E t \in NowValues \ {now} : now' = t
    /\ last' = NoEvent
    /\ UNCHANGED <<file, pc, call, spawned, slot, alive, revoked, written>>
    /\ UNCHANGED otherVars

\* validate_license, lib.rs:41-45.  t2 is the wall clock at the second read
\* (license.rs:70): it may have been set since the first (license.rs:63).
ValidateLicense ==
    \E t2 \in NowValues :
        /\ app.phase = "running"
        /\ now' = t2
        /\ last' = [Event("validate_license", 0, file,
                          Some(validate_for_machine(file, get_machine_fingerprint, now, t2)),
                          None, NoResp) EXCEPT !.t = now]
        /\ UNCHANGED <<file, pc, call, spawned, slot, alive, revoked, written>>
        /\ UNCHANGED otherVars

\* store_license, lib.rs:49-54.  When the write fails the call returns at
\* once: neither the blob nor a second clock read has a part in the result.
StoreLicense(from) ==
    \E fs \in {"ok", "fail", "partial"} :
    \E blob \in (IF fs = "ok" THEN from ELSE {CHOOSE b \in from : TRUE}),
       t2 \in (IF fs = "ok" THEN NowValues ELSE {now}) :
        LET w == write_license_file(file, blob, fs) IN
        /\ app.phase = "running"
        /\ file' = w.file
        /\ revoked' = FALSE
        /\ written' = IF w.res.ok THEN Written("store", Some(blob))
                      ELSE Written("failed", None)
        /\ now' = IF w.res.ok THEN t2 ELSE now
        /\ last' = IF w.res.ok
                   THEN [Event("store_license", 0, None,
                               Some(validate_for_machine(w.file, get_machine_fingerprint, now, t2)),
                               Some(Pass), NoResp) EXCEPT !.t = now]
                   ELSE Event("store_license", 0, None, None, Some(w.res), NoResp)
        /\ UNCHANGED <<pc, call, spawned, slot, alive>>
        /\ UNCHANGED otherVars

\* clear_license, lib.rs:57-60
ClearLicense ==
    \E fsOk \in BOOLEAN :
        LET d == delete_license_file(file, fsOk) IN
        /\ app.phase = "running"
        /\ file' = d.file
        /\ written' = IF d.res.ok THEN Written("clear", None) ELSE Written("failed", None)
        /\ last' = Event("clear_license", 0, file, None, Some(d.res), NoResp)
        /\ UNCHANGED <<now, pc, call, spawned, slot, alive, revoked>>
        /\ UNCHANGED otherVars

\* ----------------------------------------------- start_backend, lib.rs:73-170
\* Invocation c goes on at position p, having done h.
Goes(c, p, h, ev) ==
    /\ pc' = [pc EXCEPT ![c] = p]
    /\ call' = [call EXCEPT ![c] = h]
    /\ last' = ev

\* Invocation c, having done h, returns r to the frontend.
Returns(c, h, r, ev) ==
    /\ pc' = [pc EXCEPT ![c] = "idle"]
    /\ call' = [call EXCEPT ![c] = FreshCall]
    /\ last' = [ev EXCEPT !.hist = h, !.ret = Some(r)]

\* lib.rs:75-79: the license check.
SB_Validate(c) ==
    /\ app.phase = "running"
    /\ pc[c] = "idle"
    /\ \E t2 \in NowValues :
         LET status == validate_for_machine(file, get_machine_fingerprint, now, t2)
             h == [call[c] EXCEPT !.lic = IF status.valid THEN "valid" ELSE "invalid"]
             ev == [Event("sb_validate", c, file, Some(status), None, NoResp)
                        EXCEPT !.t = now]
         IN /\ now' = t2
            /\ IF LicenseGate(status)
               THEN Goes(c, "clock", h, ev)
               ELSE Returns(c, h, Err(IF status.error # None THEN status.error[1]
                                      ELSE E("Invalid license")), ev)
    /\ UNCHANGED <<file, spawned, slot, alive, revoked, written>>
    /\ UNCHANGED otherVars

\* lib.rs:82 -> license.rs:235-244: build the client and send the GET.
SB_ClockSend(c) ==
    /\ app.phase = "running"
    /\ pc[c] = "clock"
    /\ \E built \in BOOLEAN :
         IF built
         THEN Goes(c, "clock_wait", [call[c] EXCEPT !.clock = "sent"],
                   Event("clock_send", c, file, None, None, NoResp))
         ELSE Returns(c, [call[c] EXCEPT !.clock = "err"], Err(E("HTTP client error")),
                      Event("clock_build", c, file, None,
                            Some(Err(E("HTTP client error"))), NoResp))
    /\ UNCHANGED <<file, now, spawned, slot, alive, revoked, written>>
    /\ UNCHANGED otherVars

\* license.rs:244-278 and lib.rs:82-84: the answer to the clock request.
SB_ClockRecv(c) ==
    /\ app.phase = "running"
    /\ pc[c] = "clock_wait"
    /\ \E resp \in ClockResponses(now) :
         LET r == clock_drift_result(resp, now)
             ev == Event("check_clock_drift", c, file, None, Some(r), resp)
         IN IF r.ok
            THEN Goes(c, "revoc", [call[c] EXCEPT !.clock = "ok"], ev)
            ELSE Returns(c, [call[c] EXCEPT !.clock = "err"], r, ev)
    /\ UNCHANGED <<file, now, spawned, slot, alive, revoked, written>>
    /\ UNCHANGED otherVars

\* lib.rs:87-89 -> license.rs:292-302: build the client and send the GET.
SB_RevocSend(c) ==
    /\ app.phase = "running"
    /\ pc[c] = "revoc"
    /\ \E built \in BOOLEAN :
         IF built
         THEN Goes(c, "revoc_wait", [call[c] EXCEPT !.revoc = "sent"],
                   Event("revoc_send", c, file, None, None, NoResp))
         ELSE Returns(c, [call[c] EXCEPT !.revoc = "err"], Err(E("HTTP client error")),
                      Event("revoc_build", c, file, None,
                            Some(Err(E("HTTP client error"))), NoResp))
    /\ UNCHANGED <<file, now, spawned, slot, alive, revoked, written>>
    /\ UNCHANGED otherVars

\* license.rs:302-325 and lib.rs:89-91: the answer to the revocation request.
SB_RevocRecv(c) ==
    /\ app.phase = "running"
    /\ pc[c] = "revoc_wait"
    /\ \E resp \in RevocationResponses :
       \E fsOk \in (IF revocation_result(resp).delete THEN BOOLEAN ELSE {TRUE}) :
         LET rr == revocation_result(resp)
             d == IF rr.delete THEN delete_license_file(file, fsOk)
                  ELSE [file |-> file, res |-> Pass]
             ev == [Event("check_revocation", c, file, None, Some(rr.res), resp)
                        EXCEPT !.fs = IF ~rr.delete THEN "none"
                                      ELSE IF fsOk THEN "ok" ELSE "fail"]
         IN /\ file' = d.file
            /\ revoked' = IF resp.kind = "revoked_true" THEN TRUE ELSE revoked
            /\ written' = IF resp.kind = "revoked_true" THEN Written("revoked", None)
                          ELSE written
            /\ IF rr.res.ok
               THEN Goes(c, "launch", [call[c] EXCEPT !.revoc = "ok"], ev)
               ELSE Returns(c, [call[c] EXCEPT !.revoc = "err"], rr.res, ev)
    /\ UNCHANGED <<now, spawned, slot, alive>>
    /\ UNCHANGED otherVars

\* lib.rs:93-123: the port check, the sidecar command, the integrity check
\* of the binary and the spawn.
LaunchUpTo(c, limit) ==
    /\ app.phase = "running"
    /\ pc[c] = "launch"
    /\ \E e \in LaunchEnvs :
         LET o == launch_outcome(e)
             ev == [Event("launch", c, file, None, None, [kind |-> o, t |-> 0])
                        EXCEPT !.env = e]
         IN
         /\ o = "spawn" => spawned < limit
         /\ IF o = "spawn"
            THEN /\ spawned' = spawned + 1
                 /\ alive' = alive \cup {spawned + 1}
                 /\ Goes(c, "store", [call[c] EXCEPT !.child = spawned + 1], ev)
            ELSE /\ spawned' = spawned
                 /\ alive' = alive
                 /\ Returns(c, call[c],
                            CASE o = "running" -> Pass
                              [] o = "cmd_err" -> Err(E("Failed to create sidecar command"))
                              [] o = "hash_err" -> Err(E("Sidecar binary integrity check failed"))
                              [] o = "spawn_err" -> Err(E("Failed to spawn sidecar")),
                            ev)
    /\ UNCHANGED <<file, now, slot, revoked, written>>
    /\ UNCHANGED otherVars

SB_Launch(c) == LaunchUpTo(c, MaxChildren)

\* lib.rs:126-133: store the child handle.
SB_Store(c) ==
    /\ app.phase = "running"
    /\ pc[c] = "store"
    /\ slot' = Some(call[c].child)
    /\ Goes(c, "wait_port", call[c], Event("store_child", c, file, None, None, NoResp))
    /\ UNCHANGED <<file, now, spawned, alive, revoked, written>>
    /\ UNCHANGED otherVars

\* lib.rs:136-169: wait for the PORT: line, at most 30 seconds, and return.
\* The channel closes without a port only when the sidecar has terminated,
\* and the wait lasts 30 seconds only while it has not.
SB_Port(c) ==
    /\ app.phase = "running"
    /\ pc[c] = "wait_port"
    /\ \E o \in {"port", "exited", "timeout"} :
         /\ o = "exited" => call[c].child \notin alive
         /\ o = "timeout" => call[c].child \in alive
         /\ Returns(c, call[c],
                 CASE o = "port" -> Pass
                   [] o = "exited" -> Err(E("Sidecar exited without emitting a port"))
                   [] o = "timeout" -> Err(E("Sidecar did not start within 30 seconds")),
                 Event("wait_port", c, file, None, None, [kind |-> o, t |-> 0]))
    /\ UNCHANGED <<file, now, spawned, slot, alive, revoked, written>>
    /\ UNCHANGED otherVars

\* A sidecar process terminates by itself.
SidecarExits ==
    /\ \E k \in alive : alive' = alive \ {k}
    /\ last' = NoEvent
    /\ UNCHANGED <<file, now, pc, call, spawned, slot, revoked, written>>
    /\ UNCHANGED otherVars

\* lib.rs:207-217, RunEvent::Exit: take the handle out of the slot and kill
\* that child; the result of kill is dropped. The process ends, and with it
\* every start_backend invocation under way.
Exit ==
    /\ app.phase = "running"
    /\ \E killOk \in BOOLEAN :
         /\ alive' = IF slot # None /\ killOk THEN alive \ {slot[1]} ELSE alive
         /\ last' = [Event("exit", 0, file, None, None, NoResp)
                        EXCEPT !.fs = IF slot = None THEN "none"
                                      ELSE IF killOk THEN "ok" ELSE "fail"]
    /\ slot' = None
    /\ app' = [app EXCEPT !.phase = "exited"]
    /\ UNCHANGED <<file, now, pc, call, spawned, revoked, written>>
    /\ UNCHANGED <<wire, staged, upd, ver, net>>

Next ==
    \/ ClockSet
    \/ ValidateLicense
    \/ StoreLicense(GateBlobs)
    \/ ClearLicense
    \/ \E c \in Calls : SB_Validate(c)
    \/ \E c \in Calls : SB_ClockSend(c)
    \/ \E c \in Calls : SB_ClockRecv(c)
    \/ \E c \in Calls : SB_RevocSend(c)
    \/ \E c \in Calls : SB_RevocRecv(c)
    \/ \E c \in Calls : SB_Launch(c)
    \/ \E c \in Calls : SB_Store(c)
    \/ \E c \in Calls : SB_Port(c)

Spec == Init /\ [][Next]_vars

\* start_backend, the sidecars and the exit of the application: a valid
\* license is stored, and start_backend is invoked again and again.
InitSidecar ==
    /\ file \in { Some(b) : b \in GateBlobs }
    /\ now = 1000
    /\ pc = [c \in Calls |-> "idle"]
    /\ call = [c \in Calls |-> FreshCall]
    /\ spawned = 0
    /\ slot = None
    /\ alive = {}
    /\ revoked = FALSE
    /\ last = NoEvent
    /\ written = Written("none", None)
    /\ wire = NoWire
    /\ staged = [n \in StagedNames |-> None]
    /\ upd = NoUpdate
    /\ ver = NoComparison
    /\ app = App("running", "release")
    /\ net = NoRequest

NextSidecar ==
    \/ \E c \in Calls : SB_Validate(c)
    \/ \E c \in Calls : SB_ClockSend(c)
    \/ \E c \in Calls : SB_ClockRecv(c)
    \/ \E c \in Calls : SB_RevocSend(c)
    \/ \E c \in Calls : SB_RevocRecv(c)
    \/ \E c \in Calls : LaunchUpTo(c, MaxSidecars)
    \/ \E c \in Calls : SB_Store(c)
    \/ \E c \in Calls : SB_Port(c)
    \/ SidecarExits
    \/ Exit

SpecSidecar == InitSidecar /\ [][NextSidecar]_vars

\* The license commands alone, store_license being given any blob.
NextLicense ==
    \/ ClockSet
    \/ ValidateLicense
    \/ StoreLicense(Blobs)
    \/ ClearLicense

SpecLicense == Init /\ [][NextLicense]_vars

\* The process from its start: a release or a debug build, with the license
\* file an earlier run has left, if any; setup, then the license commands.
InitStartup ==
    /\ file \in {None} \cup { Some(b) : b \in GateBlobs }
    /\ now \in NowValues
    /\ pc = [c \in Calls |-> "idle"]
    /\ call = [c \in Calls |-> FreshCall]
    /\ spawned = 0
    /\ slot = None
    /\ alive = {}
    /\ revoked = FALSE
    /\ last = NoEvent
    /\ written = Written("none", None)
    /\ wire = NoWire
    /\ staged = [n \in StagedNames |-> None]
    /\ upd = NoUpdate
    /\ ver = NoComparison
    /\ app \in { App("starting", b) : b \in {"release", "debug"} }
    /\ net = NoRequest

NextStartup ==
    \/ Setup
    \/ ClockSet
    \/ ValidateLicense
    \/ StoreLicense(GateBlobs)
    \/ ClearLicense

SpecStartup == InitStartup /\ [][NextStartup]_vars

\* ------------------------------------------- verify_license_blob on text
licenseVars == <<file, pc, call, spawned, slot, alive, revoked, written, app, net>>

\* The issuing server signs payload p and hands out the blob.
Issue ==
    /\ wire = NoWire
    /\ \E p \in Payloads : wire' = Wire(IssueBlob(p), p, "none", "none")
    /\ last' = NoEvent
    /\ UNCHANGED <<now, licenseVars, staged, upd, ver>>

\* verify_license_blob(blob), license.rs:89-132, on text s that arrived as w.
Verified(s, w) ==
    /\ wire' = w
    /\ last' = [Event("verify_license_blob", 0, None, None,
                      Some(verify_license_blob(Lex(s), now)), NoResp)
                    EXCEPT !.t = now]
    /\ UNCHANGED <<now, licenseVars, staged, upd, ver>>

\* The blob arrives as it is.
VerifyWire ==
    /\ Len(wire.text) > 0 /\ wire.tamper = "none"
    /\ Verified(wire.text, wire)

\* The blob has just verified, and arrives again with bit k of character i
\* flipped; i is not the '.', and the text stays ASCII (a &str is UTF-8,
\* which a lone byte above 127 is not).
VerifyFlippedText ==
    /\ wire.tamper = "none" /\ last.op = "verify_license_blob" /\ last.res[1].ok
    /\ \E i \in 1..Len(wire.text), k \in 0..6 :
         /\ i # FirstDot(wire.text)
         /\ LET s == [wire.text EXCEPT ![i] = FlipBit(@, k)] IN
            Verified(s, Wire(s, wire.p, "text",
                             IF i < FirstDot(wire.text) THEN "payload" ELSE "signature"))

\* The blob has just verified, and arrives again with bit k of byte i of the
\* payload bytes, or of the signature bytes, flipped and the segment encoded
\* again.
VerifyFlippedBytes ==
    /\ wire.tamper = "none" /\ last.op = "verify_license_blob" /\ last.res[1].ok
    /\ LET pb == to_json(wire.p)
           sb == IssuedSignatures[wire.p]
       IN \/ \E i \in 1..Len(pb), k \in 0..7 :
               LET s == B64Encode([pb EXCEPT ![i] = FlipBit(@, k)]) \o <<46>>
                            \o B64Encode(sb)
               IN Verified(s, Wire(s, wire.p, "bytes", "payload"))
          \/ \E i \in 1..Len(sb), k \in 0..7 :
               LET s == B64Encode(pb) \o <<46>>
                            \o B64Encode([sb EXCEPT ![i] = FlipBit(@, k)])
               IN Verified(s, Wire(s, wire.p, "bytes", "signature"))

\* The clock is any of NowValues from the start, and stays.
NextBlob ==
    \/ Issue
    \/ VerifyWire
    \/ VerifyFlippedText
    \/ VerifyFlippedBytes

SpecBlob == Init /\ [][NextBlob]_vars

\* ------------------------------------------------------- updater.rs, steps
\* download_and_install, updater.rs:204-232
DownloadAndInstall ==
    /\ \E manifest \in Manifests, resp \in DownloadResponses :
       \E fs \in DownloadFs(resp) :
         LET out == download_and_install(staged, manifest, resp, fs) IN
         /\ staged' = out.staged
         /\ upd' = Update("download_and_install", Some(manifest), Some(resp), None, fs, out, {})
    /\ UNCHANGED <<now, licenseVars, last, wire, ver>>

\* install_offline_package, updater.rs:379-506.  A file it creates outside
\* the staging directory replaces whatever was there.
InstallOfflinePackage ==
    /\ \E a \in Archives, fs \in OfflineFs :
         LET out == install_offline_package(staged @@ [n \in OutsideNames |-> None], a, fs) IN
         /\ staged' = [n \in StagedNames |-> out.staged[n]]
         /\ upd' = Update("install_offline_package", None, None, Some(a), fs, out,
                          { n \in OutsideNames : out.staged[n] # None })
    /\ UNCHANGED <<now, licenseVars, last, wire, ver>>

\* check_for_updates, updater.rs:142-199
CheckForUpdates ==
    /\ \E resp \in CheckResponses :
         upd' = Update("check_for_updates", None, Some(resp), None, FsOutcome("ok", 0),
                       [result |-> check_for_updates(resp), launch |-> None], {})
    /\ UNCHANGED <<now, licenseVars, last, wire, ver, staged>>

\* read_offline_package, updater.rs:340-374
ReadOfflinePackage ==
    /\ \E a \in Archives :
         upd' = Update("read_offline_package", None, None, Some(a), FsOutcome("ok", 0),
                       [result |-> read_offline_package(a), launch |-> None], {})
    /\ UNCHANGED <<now, licenseVars, last, wire, ver, staged>>

NextUpdate ==
    \/ DownloadAndInstall
    \/ InstallOfflinePackage
    \/ CheckForUpdates
    \/ ReadOfflinePackage

\* The updater never reads the wall clock: one value of it is enough.
InitUpdate == Init /\ now = 1000

SpecUpdate == InitUpdate /\ [][NextUpdate]_vars

\* ------------------------------------------- the network-bound requests
\* The call builds its client and sends the request (license.rs:235-247,
\* 292-302; updater.rs:150, 242).
NetSend ==
    /\ net.state \in {"idle", "returned"}
    /\ \E op \in NetOps : net' = Request(op, "connecting", client_timeout(op), "none")
    /\ UNCHANGED <<now, last, wire, staged, upd, ver>>
    /\ UNCHANGED <<file, pc, call, spawned, slot, alive, revoked, written, app>>

\* The server, or the transport, answers the request: an error of the
\* transport, an error status, or a success status with the body to come.
NetStatus ==
    /\ net.state = "connecting"
    /\ \E o \in {"transport", "status", "success"} :
         net' = IF o = "success" THEN [net EXCEPT !.state = "body"]
                ELSE [net EXCEPT !.state = "returned", !.outcome = o]
    /\ UNCHANGED <<now, last, wire, staged, upd, ver>>
    /\ UNCHANGED <<file, pc, call, spawned, slot, alive, revoked, written, app>>

\* The body arrives, whole or broken (resp.json(), resp.bytes()).
NetBody ==
    /\ net.state = "body"
    /\ \E o \in {"ok", "body_err"} :
         net' = [net EXCEPT !.state = "returned", !.outcome = o]
    /\ UNCHANGED <<now, last, wire, staged, upd, ver>>
    /\ UNCHANGED <<file, pc, call, spawned, slot, alive, revoked, written, app>>

\* A second passes on the timer of a client that has one.
NetTick ==
    /\ net.state \in {"connecting", "body"}
    /\ net.left # None /\ net.left[1] > 0
    /\ net' = [net EXCEPT !.left = Some(net.left[1] - 1)]
    /\ UNCHANGED <<now, last, wire, staged, upd, ver>>
    /\ UNCHANGED <<file, pc, call, spawned, slot, alive, revoked, written, app>>

\* The timer runs out: the await ends with a timeout error.
NetTimeout ==
    /\ net.state \in {"connecting", "body"}
    /\ net.left = Some(0)
    /\ net' = [net EXCEPT !.state = "returned", !.outcome = "timeout"]
    /\ UNCHANGED <<now, last, wire, staged, upd, ver>>
    /\ UNCHANGED <<file, pc, call, spawned, slot, alive, revoked, written, app>>

NextNet ==
    \/ NetSend
    \/ NetStatus
    \/ NetBody
    \/ NetTick
    \/ NetTimeout
    \/ ClockSet

\* Time passes and a timer that has run out fires; nothing obliges the
\* server to answer.
SpecNet == Init /\ [][NextNet]_vars /\ WF_vars(NetTick) /\ WF_vars(NetTimeout)

\* ------------------------------------------------- is_newer_version alone
\* is_newer_version, updater.rs:109-129, applied once to a pair of versions.
IsNewerVersion ==
    /\ ver = NoComparison
    /\ \E local \in Versions, remote \in Versions :
         ver' = Comparison("is_newer_version", local, remote,
                           is_newer_version(local.text, remote.text))
    /\ UNCHANGED <<now, licenseVars, last, wire, staged, upd>>

NextVersion == IsNewerVersion

\* is_newer_version applied once to versions with components that are not
\* numbers.
IsNewerLooseVersion ==
    /\ ver = NoComparison
    /\ \E local \in LooseLocals, remote \in LooseVersions :
         ver' = Comparison("is_newer_version", local, remote,
                           is_newer_version(local.text, remote.text))
    /\ UNCHANGED <<now, licenseVars, last, wire, staged, upd>>

\* The comparison never reads the wall clock: one value of it is enough.
InitVersion == Init /\ now = 1000

SpecVersion == InitVersion /\ [][NextVersion]_vars

SpecLooseVersion == InitVersion /\ [][IsNewerLooseVersion]_vars

\* ---------------------------------------------------------------- claims
\* The step just taken computed a LicenseStatus st from the license file
\* (validate_license, store_license after its write, start_backend's check).
Validated == last.op \in {"validate_license", "store_license", "sb_validate"}
             /\ last.status # None
St == last.status[1]
\* What read_license_file hands to verify_license_blob.
FileBlob == trim(file[1])
WellFormedBase64(b) == b.dot /\ b.p64 /\ b.s64
IssuerSigned(b) == b.sig.len64 /\ b.sig.key = "issuer" /\ b.sig.msg = b.pbytes
NoLicenseStatus ==
    Status(FALSE, None, Some(E("No license file found. Please activate.")), None)

\* What an invocation in flight, or the one that has just returned, has done.
Histories == { call[c] : c \in Calls } \cup { last.hist }

\* C1: a start_backend invocation has spawned the sidecar only if, in that
\* invocation, validate_for_machine said valid and check_clock_drift and
\* check_revocation returned Ok; an invocation in which one of the three
\* failed has returned at once, with an error and without spawning.
C1_SpawnOnlyAfterAllChecks ==
    /\ \A h \in Histories :
          h.child # 0 => h.lic = "valid" /\ h.clock = "ok" /\ h.revoc = "ok"
    /\ \A c \in Calls :
          call[c].lic # "invalid" /\ call[c].clock # "err" /\ call[c].revoc # "err"
    /\ (last.hist.lic = "invalid" \/ last.hist.clock = "err" \/ last.hist.revoc = "err") =>
          /\ last.ret # None /\ ~last.ret[1].ok
          /\ last.hist.child = 0
C1_Witness == \E c \in Calls : call[c].child # 0 /\ spawned > 0

\* C2: a status with valid=true comes only from a license file that exists,
\* whose blob is two base64 segments with a 64-byte signature made by the
\* issuer over exactly the payload bytes, whose payload parses, is not
\* expired and is bound to this machine; it carries that payload, no error.
C2_ValidOnlyIfVerifiedAndBound ==
    (Validated /\ St.valid) =>
        /\ file # None
        /\ WellFormedBase64(FileBlob) /\ IssuerSigned(FileBlob)
        /\ FileBlob.pbytes.form = "ok"
        /\ FileBlob.pbytes.p.expires.ok /\ FileBlob.pbytes.p.expires.t >= last.t
        /\ FileBlob.pbytes.p.machine_id = get_machine_fingerprint
        /\ St.payload = Some(FileBlob.pbytes.p)
        /\ St.error = None
C2_Witness == Validated /\ St.valid /\ last.op = "validate_license"

\* C3: an invocation whose license is invalid has issued neither network
\* check, and no network check starts before the license check has been made.
C3_LocalBeforeNetwork ==
    \A h \in Histories :
        /\ h.lic = "invalid" => h.clock = "none" /\ h.revoc = "none"
        /\ h.clock # "none" => h.lic # "none"
        /\ h.revoc # "none" => h.lic # "none"
C3_Witness == last.op = "sb_validate" /\ last.ret # None /\ last.hist.lic = "invalid"

\* C4 as claimed: every blob of two well-formed base64 segments whose
\* signature does not verify yields the SignatureInvalid error.
C4_AnyBadSignatureIsSignatureInvalid ==
    (Validated /\ file # None /\ WellFormedBase64(FileBlob) /\ ~IssuerSigned(FileBlob)) =>
        St.error = Some(E("Signature verification failed"))

\* C4: for a blob of two well-formed base64 segments whose signature does not
\* verify, the error does not depend on the payload bytes: it is
\* SignatureInvalid when the signature is 64 bytes long and the
\* "Signature must be 64 bytes" error when it is not.
C4_SignatureBeforeParse ==
    (Validated /\ file # None /\ WellFormedBase64(FileBlob) /\ ~IssuerSigned(FileBlob)) =>
        /\ ~St.valid /\ St.payload = None
        /\ St.error = Some(IF FileBlob.sig.len64
                           THEN E("Signature verification failed")
                           ELSE E("Signature must be 64 bytes"))
C4_Witness ==
    /\ Validated /\ file # None /\ WellFormedBase64(FileBlob)
    /\ FileBlob.sig.len64 /\ ~IssuerSigned(FileBlob)
    /\ FileBlob.pbytes.form = "garbage"
    /\ St.error = Some(E("Signature verification failed"))

\* C5: a stored blob that verifies but is bound to another machine gives
\* valid=false with the machine-mismatch error, and the status still carries
\* the payload and its days_remaining.
C5_MachineMismatch ==
    (/\ Validated /\ file # None
     /\ WellFormedBase64(FileBlob) /\ IssuerSigned(FileBlob)
     /\ FileBlob.pbytes.form = "ok"
     /\ FileBlob.pbytes.p.expires.ok /\ FileBlob.pbytes.p.expires.t >= last.t
     /\ FileBlob.pbytes.p.machine_id # get_machine_fingerprint) =>
        /\ ~St.valid
        /\ St.error = Some(E("License is bound to a different machine"))
        /\ St.payload = Some(FileBlob.pbytes.p)
        /\ St.days_remaining = Some(days_remaining(FileBlob.pbytes.p, now))
C5_Witness ==
    /\ Validated /\ file # None /\ St.payload # None
    /\ St.error = Some(E("License is bound to a different machine"))

\* C6: with no file the status is the "no license" status; when the verifier
\* rejects the blob the status carries the verifier's error unchanged; and a
\* status without a payload is invalid, has an error and no days_remaining.
C6_NoPayloadStatus ==
    Validated =>
        /\ file = None => St = NoLicenseStatus
        /\ (file # None /\ ~verify_license_blob(FileBlob, last.t).ok) =>
              St = Status(FALSE, None, verify_license_blob(FileBlob, last.t).err, None)
        /\ St.payload = None =>
              ~St.valid /\ St.error # None /\ St.days_remaining = None
C6_Witness ==
    /\ Validated /\ file # None /\ St.payload = None
    /\ St.error = Some(ExpiredError(FileBlob.pbytes.p))

\* C7 as claimed: after a revoked=true answer check_revocation returns an
\* error and the license file is gone, so every later validate_license,
\* until a store_license, gives the "no license" status.
C7_RevokedDeletesLicense ==
    /\ (last.op = "check_revocation" /\ last.resp.kind = "revoked_true") =>
          ~last.res[1].ok /\ file = None
    /\ (revoked /\ last.op = "validate_license") => St = NoLicenseStatus

\* C8: for every answer to the revocation request other than revoked=true,
\* check_revocation returns Ok and the license file is what it was.
C8_RevocationFailOpen ==
    (last.op = "check_revocation" /\ last.resp.kind # "revoked_true") =>
        last.res = Some(Pass) /\ file = last.file
C8_Witness ==
    /\ last.op = "check_revocation" /\ last.resp.kind = "timeout"
    /\ file # None /\ last.res = Some(Pass)

\* C9 as claimed: check_clock_drift returns Ok for every failed or malformed
\* answer, an unparseable time field included, and returns an error only for
\* a server time more than the threshold away from the local clock.
C9_ClockDriftFailOpen ==
    last.op = "check_clock_drift" =>
        /\ last.resp.kind \in {"transport", "timeout", "status", "badjson", "badtime"} =>
              last.res[1].ok
        /\ ~last.res[1].ok =>
              /\ last.resp.kind = "time"
              /\ Abs(last.resp.t - now) > MAX_CLOCK_DRIFT_SECS * 1000

\* C10 as claimed: given a server time, check_clock_drift returns the
\* clock-tamper error exactly when it is more than 300 s from the local clock.
C10_DriftThreshold ==
    (last.op = "check_clock_drift" /\ last.resp.kind = "time") =>
        (~last.res[1].ok <=> Abs(last.resp.t - now) > MAX_CLOCK_DRIFT_SECS * 1000)

\* C11: a step of validate_license, of start_backend's license check or of
\* check_clock_drift leaves the license file as it was, whatever the outcome;
\* a step of check_revocation changes it only when the answer is revoked=true.
C11_OnlyRevocationMutates ==
    [][ /\ last'.op \in {"validate_license", "sb_validate", "clock_send",
                         "clock_build", "check_clock_drift"} => file' = file
        /\ (last'.op \in {"revoc_send", "revoc_build", "check_revocation"} /\ file' # file) =>
              last'.op = "check_revocation" /\ last'.resp.kind = "revoked_true" ]_vars
C11_Witness ==
    /\ last.op = "check_revocation" /\ last.resp.kind = "revoked_true"
    /\ last.file # None /\ file = None

\* C12: the outcome of check_revocation is a function of the server's answer
\* (and of the file and the file system it acts on) in which the local clock
\* does not occur: the result is the revoked error exactly for revoked=true,
\* and the file is deleted exactly when that answer came and the delete
\* succeeded, at every value of the clock.
C12_RevocationIgnoresClock ==
    last.op = "check_revocation" =>
        /\ last.res = Some(IF last.resp.kind = "revoked_true"
                           THEN Err(E("Your license has been revoked")) ELSE Pass)
        /\ file = IF last.resp.kind = "revoked_true" /\ last.fs = "ok"
                  THEN None ELSE last.file
C12_Witness ==
    /\ last.op = "check_revocation" /\ last.resp.kind = "revoked_true"
    /\ now = 126001000 /\ last.file # None /\ file = None

\* C13 as claimed: validate_license returns the status of the license file as
\* it is now: the "no license" status when the last write was a clear_license
\* or a revoked=true answer, and the verification result of b when it was
\* store_license(b).
C13_NoCrossCallCache ==
    last.op = "validate_license" =>
        /\ St = validate_for_machine(file, get_machine_fingerprint, last.t, now)
        /\ written.op \in {"clear", "revoked"} => St = NoLicenseStatus
        /\ written.op = "store" =>
              St = validate_for_machine(written.blob, get_machine_fingerprint, last.t, now)

\* The step just taken ran verify_license_blob on the text in transit, which
\* the issuer made for a payload whose expiry is still ahead (WireInDate) or
\* at least not behind (WireValid).
VerifiedWire == last.op = "verify_license_blob"
WireInDate == wire.p.expires.ok /\ wire.p.expires.t > last.t
WireValid == wire.p.expires.ok /\ wire.p.expires.t >= last.t

\* C14: the blob the issuer makes for a payload with a future expiry
\* (base64 of the JSON, '.', base64 of the signature), given untouched to
\* verify_license_blob, yields Ok with a payload equal to the one signed.
C14_RoundTrip ==
    (VerifiedWire /\ wire.tamper = "none" /\ WireInDate) =>
        last.res = Some(Ok(wire.p))
C14_Witness ==
    /\ VerifiedWire /\ wire.tamper = "none" /\ WireInDate
    /\ wire.p.machine_id = "B" /\ last.res[1].ok

\* C15 as claimed: one flipped bit in either segment of a valid blob makes
\* verify_license_blob return the SignatureInvalid error.
C15_AnyFlipIsSignatureInvalid ==
    (VerifiedWire /\ wire.tamper # "none" /\ WireValid) =>
        last.res = Some(Err(E("Signature verification failed")))

\* C15: a valid blob with one bit flipped is never accepted.  When the bit is
\* flipped in the decoded bytes of a segment the error is SignatureInvalid;
\* when it is flipped in the base64 text of a segment the error is
\* SignatureInvalid or the base64 error of one of the segments.
C15_TamperRejected ==
    (VerifiedWire /\ wire.tamper # "none" /\ WireValid) =>
        /\ ~last.res[1].ok
        /\ wire.tamper = "bytes" =>
              last.res[1].err = Some(E("Signature verification failed"))
        /\ wire.tamper = "text" =>
              last.res[1].err \in { Some(E("Signature verification failed")),
                                    Some(E("Bad payload base64")),
                                    Some(E("Bad signature base64")) }
C15_Witness ==
    /\ VerifiedWire /\ wire.tamper = "text" /\ wire.seg = "signature" /\ WireValid
    /\ last.res[1].err = Some(E("Signature verification failed"))

\* The step just taken validated a stored blob that is correctly signed by
\* the issuer over a payload that parses and whose expiry date parses.
SignedAndDated ==
    /\ Validated /\ file # None
    /\ WellFormedBase64(FileBlob) /\ IssuerSigned(FileBlob)
    /\ FileBlob.pbytes.form = "ok" /\ FileBlob.pbytes.p.expires.ok

\* C16: a correctly signed payload is rejected with the Expired error exactly
\* when its expiry is strictly before the clock read by the expiry test; with
\* the expiry at that instant or a second later the payload is accepted, and
\* with the expiry a second earlier it is rejected.
C16_ExpiryBoundary ==
    SignedAndDated =>
        /\ St.error = Some(ExpiredError(FileBlob.pbytes.p))
              <=> FileBlob.pbytes.p.expires.t < last.t
        /\ FileBlob.pbytes.p.expires.t >= last.t => St.payload = Some(FileBlob.pbytes.p)
        /\ FileBlob.pbytes.p.expires.t < last.t => ~St.valid /\ St.payload = None
C16_Witness ==
    /\ SignedAndDated /\ FileBlob.pbytes.p.expires.t = last.t
    /\ St.valid /\ St.payload = Some(FileBlob.pbytes.p)

\* A time span in whole days, any positive remainder of a day counting as a day.
CeilDays(d) ==
    LET day == 24 * 60 * 60 * 1000 IN
    IF d >= 0 THEN (d + day - 1) \div day ELSE -((-d) \div day)

\* C17 as claimed: the days_remaining of a valid status is the time from the
\* clock to the expiry in days, rounded up: 1 with an hour left, 2 with 36
\* hours left.
C17_DaysRemainingIsCeiling ==
    (Validated /\ St.valid) =>
        St.days_remaining = Some(CeilDays(St.payload[1].expires.t - now))

\* C18 as claimed: a status that carries days_remaining (valid, or bound to
\* another machine) carries a number that is not negative.
C18_DaysRemainingNotNegative ==
    (Validated /\ St.days_remaining # None) => St.days_remaining[1] >= 0

\* The digest a manifest declares is the digest of the bytes that arrived.
DigestMatches(manifest, resp) == resp.kind = "ok" /\ manifest.sha256.of = resp.bytes

Extractable(e) == e.readable /\ ~e.dir /\ e.name # "manifest.json"

\* The installer of a package: its last extractable entry, if it has one.
InstallerEntries(a) ==
    { i \in DOMAIN a.entries :
        /\ Extractable(a.entries[i])
        /\ \A j \in DOMAIN a.entries : Extractable(a.entries[j]) => j <= i }

\* A step of the offline install fails: the container does not open or is
\* no archive, the metadata is missing, unreadable or unparsable, an entry
\* cannot be read or cannot be extracted, there is no installer entry, the
\* installer's digest cannot be read or differs from the metadata's.
StepFails(a, fs) ==
    \/ ~a.opens \/ ~a.zip \/ a.manifest # "ok"
    \/ \E i \in DOMAIN a.entries : ~a.entries[i].readable
    \/ \E i \in DOMAIN a.entries :
          Extractable(a.entries[i]) /\ fs.at = i /\ fs.kind \in {"create_err", "write_err"}
    \/ InstallerEntries(a) = {}
    \/ fs.kind = "hash_err"
    \/ \E i \in InstallerEntries(a) : a.entries[i].content # a.sha256.of

\* C20: install_offline_package launches the installer only when the
\* SHA-256 of the extracted installer file equals the digest in the package
\* metadata, and every failing step (open the container, read or parse the
\* metadata, read or extract an entry, no installer entry, digest unreadable
\* or different) ends the call with success = false and no launch attempt.
C20_OfflineInstallGate ==
    upd.op = "install_offline_package" =>
        /\ upd.launch # None =>
              upd.launch[1].content = Some(upd.archive[1].sha256.of)
        /\ StepFails(upd.archive[1], upd.fs) =>
              ~upd.result.success /\ upd.launch = None

\* C21: install_offline_package rejects a package whose declared version is
\* not newer than the current one, after reading the metadata and before
\* extracting anything: nothing of such a package is extracted and its
\* installer is not launched.
C21_OfflineVersionGate ==
    [][ ( /\ upd'.op = "install_offline_package"
          /\ upd'.archive[1].opens /\ upd'.archive[1].zip
          /\ upd'.archive[1].manifest = "ok"
          /\ ~is_newer_version(CURRENT_VERSION, upd'.archive[1].version) )
        => /\ staged' = staged
           /\ upd'.outside = {}
           /\ upd'.launch = None
           /\ ~upd'.result.success ]_vars

\* The server says there is no update: a 204 answer, or a manifest whose
\* version is not newer than the current one.
NoUpdateAnswer(resp) ==
    /\ resp.kind = "http"
    /\ \/ resp.status = 204
       \/ /\ is_success(resp.status)
          /\ resp.body.kind = "manifest"
          /\ ~is_newer_version(CURRENT_VERSION, resp.body.manifest.version)

\* C22: on a 204 answer, or a manifest whose version is not newer than the
\* current one, check_for_updates returns update_available = false, no
\* manifest and no error.
C22_NoUpdateIsUpToDate ==
    (upd.op = "check_for_updates" /\ NoUpdateAnswer(upd.resp[1])) =>
        /\ ~upd.result.update_available
        /\ upd.result.manifest = None
        /\ upd.result.error = None

\* The manifest request fails: no answer (or a timeout), an error status,
\* or a body that is no manifest.
CheckFails(resp) ==
    \/ resp.kind = "transport"
    \/ ~is_success(resp.status) /\ resp.status # 204
    \/ is_success(resp.status) /\ resp.status # 204 /\ resp.body.kind # "manifest"

\* C23: when the manifest request fails, times out, returns an error status
\* or a body that does not parse as a manifest, check_for_updates returns
\* update_available = false, no manifest and an error; and whatever the
\* answer, the result has a manifest exactly when update_available is true.
C23_CheckFailureReported ==
    upd.op = "check_for_updates" =>
        /\ CheckFails(upd.resp[1]) =>
              /\ ~upd.result.update_available
              /\ upd.result.manifest = None
              /\ upd.result.error # None
        /\ (upd.result.manifest # None) <=> upd.result.update_available

C23_Witness ==
    /\ upd.op = "check_for_updates"
    /\ upd.resp[1].status = 500 /\ upd.resp[1].body.kind = "manifest"
    /\ upd.resp[1].body.manifest.version = NewerVersion
    /\ upd.result.error # None /\ upd.result.manifest = None

\* The i-th component of a list of numbers, 0 where the list has ended.
At(nums, i) == IF i \in DOMAIN nums THEN nums[i] ELSE 0

\* r is greater than l, component by component from the left.
Greater(r, l) ==
    \E i \in 1..Max(Len(r), Len(l)) :
        /\ At(r, i) > At(l, i)
        /\ \A j \in 1..(i - 1) : At(r, j) = At(l, j)

\* C24: is_newer_version(local, remote) is true exactly when the numeric
\* components of remote, compared from the left with missing trailing ones
\* taken as 0, are greater than those of local, a leading "v" being ignored;
\* so a version is not newer than itself, "0.2" and "0.2.0" are not newer
\* than each other, and is_newer(a, b) and is_newer(b, a) are never both true.
C24_VersionOrdering ==
    ver.op = "is_newer_version" =>
        /\ ver.newer = Greater(ver.remote.nums, ver.local.nums)
        /\ ver.local.text = ver.remote.text => ~ver.newer
        /\ ~(ver.newer /\ is_newer_version(ver.remote.text, ver.local.text))

C24_Witness ==
    /\ ver.op = "is_newer_version"
    /\ ver.local.text = <<"0", ".", "2", ".", "0">>
    /\ ver.remote.text = <<"v", "0", ".", "2">>
    /\ ~ver.newer

\* Setup found a debugger or a timing anomaly.
Finding(f) == f.debugger \/ f.slow

\* C25: run_integrity_checks runs before any license validation; in a
\* release build a debugger or timing finding ends the process with no
\* license validation performed, then or later; in a debug build the finding
\* is only logged, run_integrity_checks returns Ok and setup goes on to
\* validate the stored license.
C25_StartupPolicy ==
    /\ app.phase = "starting" => last.op = "none"
    /\ app.phase = "exited" => last.op \in {"setup", "none"} /\ last.status = None
    /\ last.op = "setup" =>
          /\ (app.build = "release" /\ Finding(last.env)) =>
                app.phase = "exited" /\ ~last.res[1].ok
          /\ (app.build = "debug" /\ Finding(last.env)) =>
                /\ last.res = Some(Pass)
                /\ app.phase = "running"
                /\ last.status = Some(validate_stored_license(last.file, last.t, now))

C25_Witness ==
    /\ app = App("exited", "release")
    /\ last.op = "setup" /\ last.env = Findings(FALSE, TRUE)
    /\ file # None /\ validate_stored_license(file, now, now).valid

\* The launch came to the integrity check with an expected hash configured.
GateReached(e) == ~e.running /\ e.cmd_ok /\ e.expected # None

\* The SHA-256 of the sidecar binary equals the expected hash.
BinaryMatches(e) ==
    e.binary # "unreadable" /\ [of |-> e.binary, upper |-> FALSE] = e.expected[1]

\* C26: with an expected sidecar hash configured, start_backend spawns the
\* sidecar only if the SHA-256 of the binary equals it; with a binary that
\* differs or cannot be read the call returns an error and spawns nothing;
\* either way the application keeps running and the license file is as it
\* was.
C26_BinaryIntegrityGate ==
    (last.op = "launch" /\ GateReached(last.env)) =>
        /\ last.resp.kind = "spawn" => BinaryMatches(last.env)
        /\ ~BinaryMatches(last.env) =>
              /\ last.resp.kind # "spawn"
              /\ last.ret # None /\ ~last.ret[1].ok
        /\ app.phase = "running"
        /\ file = last.file

\* C27: every network-bound call (check_for_updates, download_file,
\* check_revocation, check_clock_drift) has a bounded timeout: a request
\* that has been sent always comes to return to its caller, even when the
\* server never answers.
C27_NetworkCallsReturn ==
    (net.state \in {"connecting", "body"}) ~> (net.state = "returned")

\* C28: every entry install_offline_package extracts is written inside the
\* staging directory, whatever its name in the package (parent-directory
\* components and absolute names included).
C28_ExtractionStaysInStaging ==
    upd.op = "install_offline_package" => upd.outside = {}

\* The digest the operation was given: the manifest's or the metadata's.
DeclaredDigest == IF upd.op = "download_and_install" THEN upd.manifest[1].sha256
                  ELSE upd.archive[1].sha256

\* C29: every InstallResult of download_and_install and
\* install_offline_package has needs_restart = success, and success is true
\* only when the installer process was spawned, on a file whose digest is
\* the declared one.
C29_RestartIffSuccess ==
    upd.op \in {"download_and_install", "install_offline_package"} =>
        /\ upd.result.needs_restart = upd.result.success
        /\ upd.result.success =>
              /\ upd.launch # None
              /\ upd.fs.kind # "spawn_err"
              /\ upd.launch[1].content = Some(DeclaredDigest.of)

C29_Witness ==
    /\ upd.op = "install_offline_package"
    /\ upd.result.success /\ upd.result.needs_restart
    /\ upd.launch = Some(Launch("setup.exe", Some("good")))


\* C30: store_license writes the blob before verifying it: when it returns
\* Ok the license file holds the blob it was given, whatever the file held
\* before and whether or not the blob verifies, and the status returned is
\* what validate_for_machine gives for that blob.
C30_StoreWritesBeforeVerifying ==
    (last.op = "store_license" /\ last.res = Some(Pass)) =>
        /\ written.op = "store"
        /\ file = written.blob
        /\ last.status =
              Some(validate_for_machine(written.blob, get_machine_fingerprint, last.t, now))

C30_Witness ==
    /\ last.op = "store_license" /\ last.res = Some(Pass)
    /\ ~IssuerSigned(written.blob[1])
    /\ ~last.status[1].valid
    /\ file = written.blob

\* C31: under any interleaving of start_backend invocations and the exit of
\* the application, no child handle in the SidecarChild slot is replaced by
\* another while that child is still running, and when the application
\* exits (the kill not failing) no sidecar is left running.
C31_SidecarsKilledOnExit ==
    [][ /\ (slot # None /\ slot' # None /\ slot' # slot) => slot[1] \notin alive
        /\ (app.phase = "running" /\ app'.phase = "exited" /\ last'.fs # "fail") =>
               alive' = {}
      ]_vars

\* The step just taken validated a stored blob that is correctly signed by
\* the issuer over a payload that parses and whose expires field is not an
\* RFC3339 timestamp.
SignedUndated ==
    /\ Validated /\ file # None
    /\ WellFormedBase64(FileBlob) /\ IssuerSigned(FileBlob)
    /\ FileBlob.pbytes.form = "ok" /\ ~FileBlob.pbytes.p.expires.ok

\* C32: a correctly signed payload whose expires field is not a valid
\* RFC3339 timestamp is rejected as expired whatever the clock says: the
\* status is not valid, carries no payload, and its error is the Expired
\* error.
C32_BadExpiresRejected ==
    SignedUndated =>
        /\ ~St.valid /\ St.payload = None /\ St.days_remaining = None
        /\ St.error = Some(ExpiredError(FileBlob.pbytes.p))
C32_Witness ==
    /\ SignedUndated /\ FileBlob.pbytes.p.machine_id = get_machine_fingerprint
    /\ last.op = "validate_license" /\ ~St.valid

\* The numbers a version text writes, in order, the pieces that write none
\* left out.
RECURSIVE Kept(_)
Kept(parts) ==
    IF parts = <<>> THEN <<>> ELSE Head(parts).val \o Kept(Tail(parts))

\* The numbers of a version text if a piece that writes none counted as 0.
ZeroFilled(parts) ==
    [i \in DOMAIN parts |-> IF parts[i].val = None THEN 0 ELSE parts[i].val[1]]

\* C33: is_newer_version drops every component that is not an unsigned
\* integer, the later components moving one place to the left: the answer
\* is the comparison of the numbers that remain (so "1.x.5" is newer than
\* "1.2.0", which it would not be with x counted as 0), and a version with
\* no number in it and "0" are not newer than each other.
C33_NonNumericDropped ==
    ver.op = "is_newer_version" =>
        /\ ver.newer = Greater(Kept(ver.remote.parts), Kept(ver.local.parts))
        /\ (Kept(ver.remote.parts) = <<>> /\ ver.local.text = <<"0">>) =>
               /\ ~ver.newer
               /\ ~is_newer_version(ver.remote.text, ver.local.text)
C33_Witness ==
    /\ ver.op = "is_newer_version"
    /\ ver.local.text = <<"1", ".", "2", ".", "0">>
    /\ ver.remote.text = <<"1", ".", "x", ".", "5">>
    /\ ver.newer
    /\ ~Greater(ZeroFilled(ver.remote.parts), ZeroFilled(ver.local.parts))

====
